---- MODULE Spec2Model ----
(***************************************************************************)
(* A model of the nexus-agent runtime: the agent control loop              *)
(* (src/src/lib.rs), the managed context manager (src/src/context.rs),     *)
(* the tool pipeline and registry (src/src/tools/) and the session         *)
(* manager (src/src/session.rs).                                           *)
(*                                                                         *)
(* Conventions.                                                            *)
(*  - A string of the model stands for the bytes serde_json writes for it: *)
(*    Len(s) is its serialized byte length without the two quotes.  The    *)
(*    em dash of the summary headers (3 bytes of UTF-8) is written "---"   *)
(*    and a newline (2 bytes once escaped) is written "\\n".               *)
(*  - A serde_json Value of the log is a record of uniform shape; the      *)
(*    fields a JSON object does not have are "" or FALSE or <<>>.          *)
(*  - Thresholds (f32 fractions in the source) are integer percentages.    *)
(*  - run_loop is cut into one action per stretch of code between two      *)
(*    suspension points (.await of the provider, of a tool handler, of the *)
(*    session manager).                                                    *)
(***************************************************************************)
EXTENDS Integers, Sequences, FiniteSets, TLC

VARIABLES
    config,        \* AgentConfig: max_turns, session_id
    session,       \* which SessionManager is installed: "none" | "file"
    store,         \* the persisted SessionState of the session id, or NoState
    ctx,           \* the ManagedContextManager
    pc,            \* where the invocation stands
    turn,          \* run_loop: the loop variable
    cancel,        \* run_loop: the CancellationToken argument
    tx,            \* run_loop: TRUE iff an event sender was passed
    total_usage,   \* run_loop: total_usage
    final_text,    \* run_loop: final_text
    provider,      \* the provider call in flight: NoCall, Pending or its outcome
    response,      \* run_loop: the response of the current turn
    block,         \* run_loop: index in response.content of the tool being dispatched
    result,        \* what the entry point returned, or NoResult
    events,        \* every AgentEvent sent on tx, in order
    hist           \* history of the invocation (observations only, never read by the code)

vars == << config, session, store, ctx, pc, turn, cancel, tx, total_usage,
           final_text, provider, response, block, result, events, hist >>

(***************************************************************************)
(* Bounds of the model.                                                    *)
(***************************************************************************)
MaxTurns == 3

(***************************************************************************)
(* Values.                                                                 *)
(***************************************************************************)
Last(s) == s[Len(s)]

Min(a, b) == IF a <= b THEN a ELSE b

Max(a, b) == IF a >= b THEN a ELSE b

RECURSIVE SumSeq(_)
SumSeq(s) == IF s = <<>> THEN 0 ELSE Head(s) + SumSeq(Tail(s))

\* A text as the sequence of its characters.
\* s is at place i of text: text[i..].starts_with(s)
at(text, i, s) == i + Len(s) - 1 <= Len(text) /\ SubSeq(text, i, i + Len(s) - 1) = s

\* str::contains
contains(text, s) == \E i \in 1..(Len(text) + 1) : at(text, i, s)

\* chars().take_while(|c| charset.matches(*c)).count()
take_while(text, charset) ==
    LET stops == {i \in 1..Len(text) : text[i] \notin charset}
    IN  IF stops = {} THEN Len(text)
        ELSE (CHOOSE i \in stops : \A j \in stops : i <= j) - 1

\* A tool input: the JSON text of the value, and input["query"].as_str().
Input(text, query) == [text |-> text, query |-> query]

NoInput == Input("", [some |-> FALSE, v |-> ""])

Text(t) ==
    [type |-> "text", text |-> t, id |-> "", name |-> "", input |-> NoInput,
     content |-> "", is_error |-> FALSE]

ToolUse(id, name, input) ==
    [type |-> "tool_use", text |-> "", id |-> id, name |-> name, input |-> input,
     content |-> "", is_error |-> FALSE]

\* The block record_tool_result builds; tool_use_id is field id, tool_name is field name.
ToolResult(call_id, name, res, is_error) ==
    [type |-> "tool_result", text |-> "", id |-> call_id, name |-> name, input |-> NoInput,
     content |-> res, is_error |-> is_error]

\* A log entry whose content is a JSON string.
TextMessage(role, t) == [role |-> role, is_array |-> FALSE, text |-> t, blocks |-> <<>>]

\* A log entry whose content is a JSON array of blocks.
ArrayMessage(role, bs) == [role |-> role, is_array |-> TRUE, text |-> "", blocks |-> bs]

Usage(i, o) == [input_tokens |-> i, output_tokens |-> o]

accumulate(u, other) ==
    Usage(u.input_tokens + other.input_tokens, u.output_tokens + other.output_tokens)

(***************************************************************************)
(* Token estimation: the byte length of the compact JSON text, over 4.     *)
(***************************************************************************)
estimate_str_tokens(s) == Len(s) \div 4

\* Byte length of block.to_string().
BlockJsonLen(b) ==
    CASE b.type = "text" -> 25 + Len(b.text)
      [] b.type = "tool_use" -> 46 + Len(b.id) + Len(b.name) + Len(b.input.text)
      [] b.type = "tool_result" /\ b.name = "" -> 52 + Len(b.id) + Len(b.content)
      [] b.type = "tool_result" ->
            67 + Len(b.id) + Len(b.name) + Len(b.content)
               + (IF b.is_error THEN 16 ELSE 0)

\* Byte length of a JSON array of blocks.
BlocksJsonLen(bs) ==
    2 + SumSeq([i \in 1..Len(bs) |-> BlockJsonLen(bs[i])]) + Max(Len(bs) - 1, 0)

\* Byte length of message.to_string().
MessageJsonLen(m) ==
    IF m.is_array
    THEN 22 + Len(m.role) + BlocksJsonLen(m.blocks)
    ELSE 22 + Len(m.role) + 2 + Len(m.text)

\* estimate_tokens of one log entry or block.
estimate_tokens(m) == MessageJsonLen(m) \div 4

estimate_block_tokens(b) == BlockJsonLen(b) \div 4

\* estimate_tokens(&Value::Array(messages)), as run_loop computes pre_tokens and post_tokens.
estimate_array_tokens(msgs) ==
    (2 + SumSeq([i \in 1..Len(msgs) |-> MessageJsonLen(msgs[i])])
       + Max(Len(msgs) - 1, 0)) \div 4

(***************************************************************************)
(* Token budget.                                                           *)
(***************************************************************************)
None == [some |-> FALSE, v |-> ""]

Some(v) == [some |-> TRUE, v |-> v]

\* A tool schema: its name and the byte length of its JSON text.
Schema(name, bytes) == [name |-> name, bytes |-> bytes]

MaxOutputCap == 20000

effective_window(b) ==
    Max(b.context_window - Min(b.max_output, MaxOutputCap), 0)

total_used(b) == b.message_tokens + b.system_tokens + b.tool_schema_tokens

\* usage_fraction() >= pct / 100
usage_at_least(b, pct) ==
    IF effective_window(b) = 0
    THEN 100 >= pct
    ELSE total_used(b) * 100 >= pct * effective_window(b)

token_budget(c) ==
    [context_window |-> c.context_window,
     max_output |-> c.max_tokens,
     message_tokens |->
        SumSeq([i \in 1..Len(c.messages) |-> estimate_tokens(c.messages[i])]),
     system_tokens |-> IF c.system.some THEN estimate_str_tokens(c.system.v) ELSE 0,
     tool_schema_tokens |->
        SumSeq([i \in 1..Len(c.tool_schemas) |-> c.tool_schemas[i].bytes \div 4])]

(***************************************************************************)
(* ManagedContextManager.                                                  *)
(***************************************************************************)
DefaultCompactionThreshold == 80
DefaultPruneThreshold == 70
DefaultKeepRecent == 3
DefaultMinPruneSavings == 5000
DefaultToolDeferThreshold == 15

CompactionState(has, boundary, count) ==
    [has_compacted |-> has, last_compaction_boundary |-> boundary,
     compaction_count |-> count]

new(model, max_tokens, context_window) ==
    [model |-> model,
     max_tokens |-> max_tokens,
     context_window |-> context_window,
     system |-> None,
     messages |-> <<>>,
     tool_schemas |-> <<>>,
     active_tools |-> {},
     compaction_state |-> CompactionState(FALSE, 0, 0),
     compaction_threshold |-> DefaultCompactionThreshold,
     prune_threshold |-> DefaultPruneThreshold,
     keep_recent_tool_results |-> DefaultKeepRecent,
     min_prune_savings_tokens |-> DefaultMinPruneSavings,
     tool_defer_threshold |-> DefaultToolDeferThreshold]

with_tools(c, schemas) == [c EXCEPT !.tool_schemas = schemas]

with_prune_threshold(c, pct) == [c EXCEPT !.prune_threshold = pct]

with_keep_recent(c, n) == [c EXCEPT !.keep_recent_tool_results = n]

with_min_prune_savings(c, tokens) == [c EXCEPT !.min_prune_savings_tokens = tokens]

\* The (message index, block index) of every tool_result block of the user entries.
RECURSIVE tool_result_locations(_, _)
tool_result_locations(msgs, i) ==
    IF i > Len(msgs) THEN <<>>
    ELSE (IF msgs[i].role = "user" /\ msgs[i].is_array
          THEN SelectSeq([b \in 1..Len(msgs[i].blocks) |-> <<i, b>>],
                         LAMBDA p : msgs[i].blocks[p[2]].type = "tool_result")
          ELSE <<>>)
         \o tool_result_locations(msgs, i + 1)

\* format!("[tool result pruned --- {name}: {old_content} bytes]")
stub_text(b) ==
    "[tool result pruned --- " \o (IF b.name = "" THEN "unknown" ELSE b.name)
        \o ": " \o ToString(Len(b.content)) \o " bytes]"

\* json!({"type": "tool_result", "tool_use_id": ..., "content": stub})
stub_block(b) == ToolResult(b.id, "", stub_text(b), FALSE)

prune_savings(b) ==
    IF estimate_block_tokens(b) > estimate_str_tokens(stub_text(b))
    THEN estimate_block_tokens(b) - estimate_str_tokens(stub_text(b))
    ELSE 0

\* Variant: one more block than allowed is pruned.
micro_compact_one_more(c, messages, budget) ==
    LET locs == tool_result_locations(messages, 1)
        prune_count == Min(Len(locs), Len(locs) - c.keep_recent_tool_results + 1)
        to_prune == {locs[k] : k \in 1..prune_count}
        pruned_messages ==
            [i \in 1..Len(messages) |->
                [messages[i] EXCEPT !.blocks =
                    [j \in 1..Len(messages[i].blocks) |->
                        IF <<i, j>> \in to_prune
                        THEN stub_block(messages[i].blocks[j])
                        ELSE messages[i].blocks[j]]]]
    IN  IF ~usage_at_least(budget, c.prune_threshold) THEN messages
        ELSE IF Len(locs) <= c.keep_recent_tool_results THEN messages
        ELSE pruned_messages

micro_compact(c, messages, budget) ==
    LET locs == tool_result_locations(messages, 1)
        prune_count == Len(locs) - c.keep_recent_tool_results
        to_prune == {locs[k] : k \in 1..prune_count}
        total_savings ==
            SumSeq([k \in 1..prune_count |->
                      prune_savings(messages[locs[k][1]].blocks[locs[k][2]])])
        pruned_messages ==
            [i \in 1..Len(messages) |->
                [messages[i] EXCEPT !.blocks =
                    [j \in 1..Len(messages[i].blocks) |->
                        IF <<i, j>> \in to_prune
                        THEN stub_block(messages[i].blocks[j])
                        ELSE messages[i].blocks[j]]]]
    IN  IF ~usage_at_least(budget, c.prune_threshold) THEN messages
        ELSE IF Len(locs) <= c.keep_recent_tool_results THEN messages
        ELSE IF total_savings >= c.min_prune_savings_tokens THEN pruned_messages
        ELSE messages

\* Variant: the schemas are filtered although the model has used no tool yet.
deferred_tools_unguarded(c, budget) ==
    IF effective_window(budget) = 0 THEN c.tool_schemas
    ELSE IF budget.tool_schema_tokens * 100
              <= c.tool_defer_threshold * effective_window(budget)
         THEN c.tool_schemas
    ELSE SelectSeq(c.tool_schemas, LAMBDA s : s.name \in c.active_tools)

deferred_tools(c, budget) ==
    IF c.active_tools = {} THEN c.tool_schemas
    ELSE IF effective_window(budget) = 0 THEN c.tool_schemas
    ELSE IF budget.tool_schema_tokens * 100
              <= c.tool_defer_threshold * effective_window(budget)
         THEN c.tool_schemas
    ELSE SelectSeq(c.tool_schemas, LAMBDA s : s.name \in c.active_tools)

build_request(c) ==
    [model |-> c.model,
     max_tokens |-> c.max_tokens,
     system |-> c.system,
     tools |-> deferred_tools(c, token_budget(c)),
     messages |-> micro_compact(c, c.messages, token_budget(c))]

add_prompt(c, prompt) ==
    [c EXCEPT !.messages = Append(@, TextMessage("user", prompt))]

\* The names of the ToolUse blocks of a response.
tool_names_used(content) ==
    {content[i].name : i \in {k \in 1..Len(content) : content[k].type = "tool_use"}}

\* Variant: a response that follows an assistant entry takes its place.
record_response_merging(c, resp) ==
    LET n == Len(c.messages)
    IN  IF n > 0 /\ c.messages[n].role = "assistant"
        THEN [c EXCEPT !.active_tools = @ \cup tool_names_used(resp.content),
                       !.messages[n] = ArrayMessage("assistant", resp.content)]
        ELSE [c EXCEPT !.active_tools = @ \cup tool_names_used(resp.content),
                       !.messages = Append(@, ArrayMessage("assistant", resp.content))]

record_response(c, resp) ==
    [c EXCEPT !.active_tools = @ \cup tool_names_used(resp.content),
              !.messages = Append(@, ArrayMessage("assistant", resp.content))]

is_tool_result_msg(last) ==
    /\ last.role = "user"
    /\ last.is_array
    /\ Len(last.blocks) > 0
    /\ last.blocks[1].type = "tool_result"

\* Variant: every result gets a user entry of its own.
record_tool_result_unbatched(c, call_id, name, res, is_error) ==
    [c EXCEPT !.messages =
        Append(@, ArrayMessage("user", << ToolResult(call_id, name, res, is_error) >>))]

\* Variant: the result is recorded without its error flag.
record_tool_result_unflagged(c, call_id, name, res, is_error) ==
    LET tool_result == ToolResult(call_id, name, res, FALSE)
        n == Len(c.messages)
    IN  IF n > 0 /\ is_tool_result_msg(c.messages[n])
        THEN [c EXCEPT !.messages[n].blocks = Append(@, tool_result)]
        ELSE [c EXCEPT !.messages = Append(@, ArrayMessage("user", <<tool_result>>))]

record_tool_result(c, call_id, name, res, is_error) ==
    LET tool_result == ToolResult(call_id, name, res, is_error)
        n == Len(c.messages)
    IN  IF n > 0 /\ is_tool_result_msg(c.messages[n])
        THEN [c EXCEPT !.messages[n].blocks = Append(@, tool_result)]
        ELSE [c EXCEPT !.messages = Append(@, ArrayMessage("user", <<tool_result>>))]

needs_compaction(c) == usage_at_least(token_budget(c), c.compaction_threshold)

CompactionMaxTokens == 4096

\* The request carries the prompt text; the model keeps which prompt it is and the
\* entries whose text the prompt quotes.
build_compaction_request(c) ==
    IF ~needs_compaction(c) THEN None
    ELSE Some([model |-> c.model,
               max_tokens |-> CompactionMaxTokens,
               system |-> None,
               tools |-> <<>>,
               prompt |-> IF c.compaction_state.has_compacted
                          THEN "PARTIAL_COMPACTION_PROMPT" ELSE "COMPACTION_PROMPT",
               quoted |-> IF c.compaction_state.has_compacted
                          THEN SubSeq(c.messages,
                                      c.compaction_state.last_compaction_boundary + 1,
                                      Len(c.messages))
                          ELSE c.messages])

summary_content(header, n, summary) ==
    header \o ToString(n) \o "]\\n\\n" \o summary

\* Variant: a partial compaction leaves the boundary where it was.
compact_stale_boundary(c, summary) ==
    LET cs == c.compaction_state
        count == cs.compaction_count + 1
    IN  IF ~cs.has_compacted
        THEN [c EXCEPT
                !.messages = << TextMessage("user",
                    summary_content("[Conversation summary --- compaction #", count, summary)) >>,
                !.compaction_state = CompactionState(TRUE, 1, count)]
        ELSE LET kept == SubSeq(c.messages, 1, Min(cs.last_compaction_boundary, Len(c.messages)))
                 msgs == Append(kept, TextMessage("user",
                    summary_content("[Partial summary --- compaction #", count, summary)))
             IN  [c EXCEPT !.messages = msgs,
                           !.compaction_state =
                                CompactionState(TRUE, cs.last_compaction_boundary, count)]

compact(c, summary) ==
    LET cs == c.compaction_state
        count == cs.compaction_count + 1
    IN  IF ~cs.has_compacted
        THEN [c EXCEPT
                !.messages = << TextMessage("user",
                    summary_content("[Conversation summary --- compaction #", count, summary)) >>,
                !.compaction_state = CompactionState(TRUE, 1, count)]
        ELSE LET kept == SubSeq(c.messages, 1, Min(cs.last_compaction_boundary, Len(c.messages)))
                 msgs == Append(kept, TextMessage("user",
                    summary_content("[Partial summary --- compaction #", count, summary)))
             IN  [c EXCEPT !.messages = msgs,
                           !.compaction_state = CompactionState(TRUE, Len(msgs), count)]

\* The JSON object snapshot() builds; present is the set of its keys.
snapshot(c) ==
    [present |-> {"model", "max_tokens", "context_window", "system", "messages",
                  "tool_schemas", "active_tools", "compaction_state"},
     model |-> c.model,
     max_tokens |-> c.max_tokens,
     context_window |-> c.context_window,
     system |-> c.system,
     messages |-> c.messages,
     tool_schemas |-> c.tool_schemas,
     active_tools |-> c.active_tools,
     compaction_state |-> c.compaction_state]

DefaultContextWindow == 200000

\* restore assigns field by field and returns at the first required key that is
\* missing: [ok, c] is its Result and the manager it leaves behind.
restore(c, snap) ==
    LET has(k) == k \in snap.present
        c1 == [c EXCEPT !.model = snap.model]
        c2 == [c1 EXCEPT !.max_tokens = snap.max_tokens,
                         !.context_window =
                            IF has("context_window") THEN snap.context_window
                            ELSE DefaultContextWindow,
                         !.system = IF has("system") THEN snap.system ELSE None]
        c3 == [c2 EXCEPT !.messages = snap.messages,
                         !.tool_schemas =
                            IF has("tool_schemas") THEN snap.tool_schemas ELSE <<>>,
                         !.active_tools =
                            IF has("active_tools") THEN snap.active_tools ELSE {},
                         !.compaction_state =
                            IF has("compaction_state") THEN snap.compaction_state ELSE @]
    IN  IF ~has("model") THEN [ok |-> FALSE, c |-> c]
        ELSE IF ~has("max_tokens") THEN [ok |-> FALSE, c |-> c1]
        ELSE IF ~has("messages") THEN [ok |-> FALSE, c |-> c2]
        ELSE [ok |-> TRUE, c |-> c3]

(***************************************************************************)
(* Tool registry and pipeline.                                             *)
(***************************************************************************)
Ok(v) == [ok |-> TRUE, v |-> v]

Err(v) == [ok |-> FALSE, v |-> v]

\* The handlers of the repository's tests: EchoTool returns its input's JSON text,
\* ErrorTool fails.
call(handler, input) ==
    IF handler = "EchoTool" THEN Ok(input.text) ELSE Err("tool failed")

ToolDef(name, schema, handler) == [name |-> name, schema |-> schema, handler |-> handler]

\* ToolRegistry::new().add("fail_tool", ..).add("echo", ..)
Registry ==
    << ToolDef("fail_tool", Schema("fail_tool", 20), "ErrorTool"),
       ToolDef("echo", Schema("echo", 93), "EchoTool") >>

\* ToolRegistry::search_tool_schema(): the schema of the tool_search meta-tool.
search_tool_schema == Schema("tool_search", 373)

schemas(reg) == [i \in 1..Len(reg) |-> reg[i].schema]

registry_execute(reg, name, input) ==
    LET found == {i \in 1..Len(reg) : reg[i].name = name}
    IN  IF found = {} THEN Err("unknown tool: " \o name)
        ELSE call(reg[CHOOSE i \in found : \A j \in found : i <= j].handler, input)

\* The characters of the names, descriptions and queries of the model.
characters(s) ==
    CASE s = "echo" -> << "e", "c", "h", "o" >>
      [] s = "fail_tool" -> << "f", "a", "i", "l", "_", "t", "o", "o", "l" >>
      [] s = "tool_search" -> << "t", "o", "o", "l", "_", "s", "e", "a", "r", "c", "h" >>
      [] s = "Echoes input" -> << "E", "c", "h", "o", "e", "s", " ", "i", "n", "p", "u", "t" >>
      [] s = "ECHO" -> << "E", "C", "H", "O" >>
      [] s = " fail  put " -> << " ", "f", "a", "i", "l", " ", " ", "p", "u", "t", " " >>
      [] s = "zzz" -> << "z", "z", "z" >>
      [] s = " " -> << " " >>
      [] OTHER -> << >>

\* str::to_lowercase, on the letters of the model.
to_lowercase(text) ==
    [i \in 1..Len(text) |->
        CASE text[i] = "E" -> "e" [] text[i] = "C" -> "c"
          [] text[i] = "H" -> "h" [] text[i] = "O" -> "o"
          [] OTHER -> text[i]]

\* str::split_whitespace: the maximal runs without white space, in order.
RECURSIVE split_whitespace(_)
split_whitespace(text) ==
    IF text = <<>> THEN <<>>
    ELSE IF text[1] = " " THEN split_whitespace(Tail(text))
    ELSE LET n == take_while(text, {text[i] : i \in 1..Len(text)} \ {" "})
         IN  << SubSeq(text, 1, n) >> \o split_whitespace(SubSeq(text, n + 1, Len(text)))

\* schema["description"] of a tool: the echo tool of the tests has one, the
\* others have none (Value::Null).
description(schema) ==
    IF schema.name = "echo" THEN [some |-> TRUE, v |-> "Echoes input"]
    ELSE [some |-> FALSE, v |-> ""]

SearchResult(name, desc) == [name |-> name, description |-> desc]

\* ToolRegistry::search: the tools whose "name description", in lower case,
\* contains one of the terms of the query.
search(reg, query) ==
    LET terms == split_whitespace(to_lowercase(characters(query)))
        haystack(t) == to_lowercase(characters(t.name) \o << " " >> \o characters(description(t.schema).v))
        matching == SelectSeq(reg, LAMBDA t :
                        \E k \in 1..Len(terms) : contains(haystack(t), terms[k]))
    IN  [i \in 1..Len(matching) |->
            SearchResult(matching[i].name, description(matching[i].schema))]

\* ToolPipeline { registry, transforms, decorators }
ToolPipeline(reg, transforms, decorators) ==
    [registry |-> reg, transforms |-> transforms, decorators |-> decorators]

\* A ToolTransform: its name, the tools applies_to accepts, and whether transform
\* returns Err; an Ok transform wraps the output it is given in its name.
ToolTransform(name, tools, fails) == [name |-> name, tools |-> tools, fails |-> fails]

\* A ToolDecorator: its name, the tools applies_to accepts, and what decorate
\* returns: "some" (a decoration quoting the output it is shown), "none", "err".
ToolDecorator(name, tools, returns) == [name |-> name, tools |-> tools, returns |-> returns]

applies_to(t, tool_name, input) == tool_name \in t.tools

transform(t, tool_name, input, output) ==
    IF t.fails THEN Err(t.name \o " failed") ELSE Ok(t.name \o "(" \o output \o ")")

Decoration(label, content) == [label |-> label, content |-> content]

\* impl Display for Decoration
to_string(d) == "[" \o d.label \o "]\\n" \o d.content

\* Result<Option<Decoration>, DecoratorError>
decorate_one(d, tool_name, input, output) ==
    IF d.returns = "err" THEN Err(d.name \o " failed")
    ELSE IF d.returns = "none" THEN Ok(None)
    ELSE Ok(Some(Decoration(d.name, "seen: " \o output)))

\* Variant: a failing transform leaves an empty output behind.
transform_step_clearing(t, tool_name, input, output) ==
    IF ~applies_to(t, tool_name, input) THEN output
    ELSE LET r == transform(t, tool_name, input, output)
         IN  IF r.ok THEN r.v ELSE ""

\* One iteration of the loop over self.transforms.
transform_step(t, tool_name, input, output) ==
    IF ~applies_to(t, tool_name, input) THEN output
    ELSE LET r == transform(t, tool_name, input, output)
         IN  IF r.ok THEN r.v ELSE output

\* Variant: a failing decorator drops the decorations collected before it.
decorate_step_dropping(d, tool_name, input, output, decorations) ==
    IF ~applies_to(d, tool_name, input) THEN decorations
    ELSE LET r == decorate_one(d, tool_name, input, output)
         IN  IF r.ok /\ r.v.some THEN Append(decorations, r.v.v)
             ELSE IF r.ok THEN decorations ELSE <<>>

\* One iteration of the loop over self.decorators.
decorate_step(d, tool_name, input, output, decorations) ==
    IF ~applies_to(d, tool_name, input) THEN decorations
    ELSE LET r == decorate_one(d, tool_name, input, output)
         IN  IF r.ok /\ r.v.some THEN Append(decorations, r.v.v) ELSE decorations

RECURSIVE transforms_of(_, _, _, _)
transforms_of(ts, tool_name, input, output) ==
    IF ts = <<>> THEN output
    ELSE transforms_of(Tail(ts), tool_name, input,
                       transform_step(Head(ts), tool_name, input, output))

\* ToolPipeline::decorate
RECURSIVE decorate(_, _, _, _, _)
decorate(decs, tool_name, input, output, decorations) ==
    IF decs = <<>> THEN decorations
    ELSE decorate(Tail(decs), tool_name, input, output,
                  decorate_step(Head(decs), tool_name, input, output, decorations))

RECURSIVE join_strings(_, _)
join_strings(strs, sep) ==
    IF strs = <<>> THEN ""
    ELSE IF Len(strs) = 1 THEN strs[1]
    ELSE strs[1] \o sep \o join_strings(Tail(strs), sep)

\* The end of run: format!("{}\n\n---\n{}", output, decorations joined by "\n\n").
format(output, decorations) ==
    IF decorations = <<>> THEN output
    ELSE output \o "\\n\\n---\\n"
            \o join_strings([i \in 1..Len(decorations) |-> to_string(decorations[i])], "\\n\\n")

\* ToolPipeline::run
run(pl, tool_name, input, raw_output) ==
    LET output == transforms_of(pl.transforms, tool_name, input, raw_output)
    IN  format(output, decorate(pl.decorators, tool_name, input, output, <<>>))

\* serde_json::to_string_pretty of the search results: an object's keys in
\* alphabetical order, two spaces of indentation, "[]" for the empty list.
to_string_pretty(results) ==
    IF results = <<>> THEN "[]"
    ELSE "[\\n"
         \o join_strings([i \in 1..Len(results) |->
                "  {\\n    \"description\": "
                \o (IF results[i].description.some
                    THEN "\"" \o results[i].description.v \o "\"" ELSE "null")
                \o ",\\n    \"name\": \"" \o results[i].name \o "\"\\n  }"], ",\\n")
         \o "\\n]"

\* if name == "tool_search": the meta-tool is answered by the pipeline itself.
intercepts_unregistered(pl, name) ==
    name = "tool_search" /\ \A i \in 1..Len(pl.registry) : pl.registry[i].name # name

intercepts(pl, name) == name = "tool_search"

\* input["query"].as_str().unwrap_or("")
query_of(input) == IF input.query.some THEN input.query.v ELSE ""

\* ToolPipeline::execute
execute(pl, name, input) ==
    IF intercepts(pl, name)
    THEN Ok(to_string_pretty(search(pl.registry, query_of(input))))
    ELSE LET raw == registry_execute(pl.registry, name, input)
         IN  IF raw.ok THEN Ok(run(pl, name, input, raw.v)) ELSE raw

(***************************************************************************)
(* The environment: configuration, provider answers, persisted state.      *)
(***************************************************************************)
MaxTokens == 20

ContextWindow == 120

Prompts == {"hi"}

Response(stop_reason, content, usage) ==
    [stop_reason |-> stop_reason, content |-> content, usage |-> usage]

NoResponse == Response("", <<>>, Usage(0, 0))

EmptyInput == Input("{}", [some |-> FALSE, v |-> ""])

\* What the provider may answer to a main-turn request.
MainResponses ==
    { Response("EndTurn", << Text("Done.") >>, Usage(3, 1)),
      Response("EndTurn", << >>, Usage(1, 0)),
      Response("ToolUse", << Text("Let me check."), ToolUse("c1", "echo", EmptyInput) >>,
               Usage(2, 1)),
      Response("ToolUse", << ToolUse("c1", "fail_tool", EmptyInput),
                             ToolUse("c2", "nope", EmptyInput),
                             ToolUse("c3", "echo", EmptyInput) >>, Usage(2, 2)),
      Response("MaxTokens", << Text("partial"), Text("cut") >>, Usage(1, 4)),
      Response("MaxTokens", << Text("cut"), ToolUse("c1", "echo", EmptyInput) >>,
               Usage(1, 3)) }

\* What the provider may answer to a compaction request.
CompactionResponses ==
    { Response("EndTurn", << Text("summary") >>, Usage(5, 2)) }

\* The outcome of provider.infer: Result<InferenceResponse, InferenceError>.
Outcome(ok, resp, err) == [ok |-> ok, resp |-> resp, err |-> err]

NoOutcome == Outcome(FALSE, NoResponse, "")

InferErrors == {"ApiError"}

Outcomes(responses) ==
    {Outcome(TRUE, r, "") : r \in responses}
        \cup {Outcome(FALSE, NoResponse, e) : e \in InferErrors}

NoCall == [state |-> "none", out |-> NoOutcome]

\* The future of a call that select! dropped before it returned.
Dropped == [state |-> "dropped", out |-> NoOutcome]

Pending == [state |-> "pending", out |-> NoOutcome]

Ready(out) == [state |-> "ready", out |-> out]

SessionState(t, snap) == [some |-> TRUE, turn |-> t, context_snapshot |-> snap]

NoState == [some |-> FALSE]

\* The context the agent is constructed with (make_agent of the tests).
Context0 == with_tools(new("test-model", MaxTokens, ContextWindow), schemas(Registry))

\* The context of an earlier run of the session: one ToolUse turn.
PriorContext ==
    record_tool_result(
        record_response(add_prompt(Context0, "hi"),
            Response("ToolUse", << ToolUse("c1", "echo", EmptyInput) >>, Usage(0, 0))),
        "c1", "echo", "{}", FALSE)

\* What an earlier run may have left in the session file.
PriorStates == {SessionState(t, snapshot(PriorContext)) : t \in {0, MaxTurns}}

(***************************************************************************)
(* Events and results.                                                     *)
(***************************************************************************)
Event(type, n, name, content, is_error, pre, post) ==
    [type |-> type, turn |-> n, name |-> name, content |-> content,
     is_error |-> is_error, pre_tokens |-> pre, post_tokens |-> post]

TurnStartEvent(t) == Event("TurnStart", t, "", "", FALSE, 0, 0)

TextEvent(t) == Event("Text", 0, "", t, FALSE, 0, 0)

ToolCallEvent(name) == Event("ToolCall", 0, name, "", FALSE, 0, 0)

ToolResultEvent(name, output, is_error) == Event("ToolResult", 0, name, output, is_error, 0, 0)

CompactedEvent(pre, post) == Event("Compacted", 0, "", "", FALSE, pre, post)

FinishedEvent(turns) == Event("Finished", turns, "", "", FALSE, 0, 0)

\* if let Some(ref tx) = tx { let _ = tx.send(e).await; }
send(has_tx, evs, e) == IF has_tx THEN Append(evs, e) ELSE evs

\* What an entry point returned: Ok(AgentResult), Err(AgentError), resume's Ok(None).
\* error is the AgentError variant, detail the error it wraps.
Result(kind, error, detail, text, turns, usage) ==
    [kind |-> kind, error |-> error, detail |-> detail, text |-> text, turns |-> turns,
     usage |-> usage]

NoResult == Result("none", "", "", "", 0, Usage(0, 0))

OkResult(text, turns, usage) == Result("ok", "", "", text, turns, usage)

ErrResult(error, detail) == Result("err", error, detail, "", 0, Usage(0, 0))

AbsentResult == Result("absent", "", "", "", 0, Usage(0, 0))

NoToken == [armed |-> FALSE, fired |-> FALSE]

Token(fired) == [armed |-> TRUE, fired |-> fired]

(***************************************************************************)
(* Initial state: the agent as constructed, no entry point called yet.     *)
(***************************************************************************)
Hist0(st) ==
    [infer_calls |-> 0,        \* main-turn calls of provider.infer
     compact_calls |-> 0,      \* compaction calls of provider.infer
     started |-> <<>>,         \* <<turn, call id>> of every tool handed to the pipeline
     recorded |-> <<>>,        \* the turns whose response was recorded
     checkpoints |-> <<>>,     \* every SessionState handed to session.checkpoint
     ckpt_ok |-> 0,            \* how many of these calls returned Ok
     written |-> <<>>,         \* the states the session manager persisted
     fired_in_flight |-> -1,   \* the turn whose main call was unanswered when the token fired
     store0 |-> st,            \* the persisted state when the entry point was called
     token0 |-> FALSE,         \* the token was already fired when it was passed
     entry |-> "",             \* the entry point called
     answered |-> [input_tokens |-> 0, output_tokens |-> 0],
                               \* the usage of every response the provider returned
     seen |-> <<>>]            \* the content of every main response the loop received

Init ==
    /\ config \in [max_turns : 0..MaxTurns, session_id : BOOLEAN]
    /\ session \in {"none", "file"}
    /\ store \in (IF session = "file" THEN {NoState} \cup PriorStates ELSE {NoState})
    /\ ctx = Context0
    /\ pc = "idle"
    /\ turn = 0
    /\ cancel = NoToken
    /\ tx = FALSE
    /\ total_usage = Usage(0, 0)
    /\ final_text = ""
    /\ provider = NoCall
    /\ response = NoResponse
    /\ block = 0
    /\ result = NoResult
    /\ events = <<>>
    /\ hist = Hist0(store)

(***************************************************************************)
(* Entry points.                                                           *)
(***************************************************************************)
\* self.run_loop(start_turn, cancel, tx): total_usage and final_text start empty.
run_loop(start_turn, token, has_tx) ==
    /\ pc' = "top"
    /\ turn' = start_turn
    /\ cancel' = token
    /\ tx' = has_tx
    /\ total_usage' = Usage(0, 0)
    /\ final_text' = ""

Invoke(prompt) ==
    /\ pc = "idle"
    /\ ctx' = add_prompt(ctx, prompt)
    /\ run_loop(0, NoToken, FALSE)
    /\ hist' = [hist EXCEPT !.entry = "invoke"]
    /\ UNCHANGED << config, session, store, provider, response, block, result, events >>

InvokeWithCancel(prompt, fired) ==
    /\ pc = "idle"
    /\ ctx' = add_prompt(ctx, prompt)
    /\ run_loop(0, Token(fired), FALSE)
    /\ hist' = [hist EXCEPT !.entry = "invoke_with_cancel", !.token0 = fired]
    /\ UNCHANGED << config, session, store, provider, response, block, result, events >>

InvokeStreaming(prompt) ==
    /\ pc = "idle"
    /\ ctx' = add_prompt(ctx, prompt)
    /\ run_loop(0, NoToken, TRUE)
    /\ hist' = [hist EXCEPT !.entry = "invoke_streaming"]
    /\ UNCHANGED << config, session, store, provider, response, block, result, events >>

\* SessionManager::load: NoSessionManager and a missing file give Ok(None).
load == IF session = "file" THEN store ELSE NoState

\* resume when load returns Ok(None).
ResumeAbsent ==
    /\ pc = "idle"
    /\ ~load.some
    /\ pc' = "done"
    /\ result' = AbsentResult
    /\ hist' = [hist EXCEPT !.entry = "resume"]
    /\ UNCHANGED << config, session, store, ctx, turn, cancel, tx, total_usage,
                    final_text, provider, response, block, events >>

\* resume when load fails: the file cannot be read or parsed.
ResumeLoadFails ==
    /\ pc = "idle"
    /\ session = "file"
    /\ pc' = "done"
    /\ result' = ErrResult("Session", "io")
    /\ hist' = [hist EXCEPT !.entry = "resume"]
    /\ UNCHANGED << config, session, store, ctx, turn, cancel, tx, total_usage,
                    final_text, provider, response, block, events >>

\* Variant: the resumed loop starts at the checkpointed turn itself.
Resume_same_turn ==
    /\ pc = "idle"
    /\ load.some
    /\ LET r == restore(ctx, load.context_snapshot)
       IN  /\ ctx' = r.c
           /\ hist' = [hist EXCEPT !.entry = "resume"]
           /\ IF r.ok
              THEN /\ config' = [config EXCEPT !.session_id = TRUE]
                   /\ run_loop(load.turn, NoToken, FALSE)
                   /\ UNCHANGED result
              ELSE /\ pc' = "done"
                   /\ result' = ErrResult("Context", "missing key")
                   /\ UNCHANGED << config, turn, cancel, tx, total_usage, final_text >>
    /\ UNCHANGED << session, store, provider, response, block, events >>

\* resume when load returns a state.
Resume ==
    /\ pc = "idle"
    /\ load.some
    /\ LET r == restore(ctx, load.context_snapshot)
       IN  /\ ctx' = r.c
           /\ hist' = [hist EXCEPT !.entry = "resume"]
           /\ IF r.ok
              THEN /\ config' = [config EXCEPT !.session_id = TRUE]
                   /\ run_loop(load.turn + 1, NoToken, FALSE)
                   /\ UNCHANGED result
              ELSE /\ pc' = "done"
                   /\ result' = ErrResult("Context", "missing key")
                   /\ UNCHANGED << config, turn, cancel, tx, total_usage, final_text >>
    /\ UNCHANGED << session, store, provider, response, block, events >>

(***************************************************************************)
(* run_loop.                                                               *)
(***************************************************************************)
\* The range with its end included: one turn too many.
in_range_inclusive == turn <= config.max_turns

\* for turn in start_turn..self.config.max_turns
in_range == turn < config.max_turns

\* The cancellation check at the top of a turn.
is_cancelled == cancel.armed /\ cancel.fired

\* Variant: the last ToolUse block is taken first.
next_tool_use_last(content, from) ==
    LET later == {i \in from..Len(content) : content[i].type = "tool_use"}
    IN  IF later = {} THEN 0 ELSE CHOOSE i \in later : \A j \in later : i >= j

\* The index of the first ToolUse block of content at or after from, 0 if there is none.
next_tool_use(content, from) ==
    LET later == {i \in from..Len(content) : content[i].type = "tool_use"}
    IN  IF later = {} THEN 0 ELSE CHOOSE i \in later : \A j \in later : i <= j

\* The Text blocks of a response, in order.
text_blocks(content) == SelectSeq(content, LAMBDA b : b.type = "text")

RECURSIVE join(_, _)
join(texts, sep) ==
    IF texts = <<>> THEN ""
    ELSE IF Len(texts) = 1 THEN texts[1].text
    ELSE texts[1].text \o sep \o join(Tail(texts), sep)

\* The end of the loop body: with a session id the turn is checkpointed, then the
\* next turn starts.
after_turn ==
    IF config.session_id
    THEN pc' = "checkpoint" /\ turn' = turn
    ELSE pc' = "top" /\ turn' = turn + 1

\* Variant: running out of turns is an error.
LoopExit_fails ==
    /\ pc = "top"
    /\ ~in_range
    /\ events' = send(tx, events, FinishedEvent(config.max_turns))
    /\ result' = ErrResult("MaxTurns", "")
    /\ pc' = "done"
    /\ UNCHANGED << config, session, store, ctx, turn, cancel, tx, total_usage,
                    final_text, provider, response, block, hist >>

\* for turn in start_turn..max_turns: the range is exhausted.
LoopExit ==
    /\ pc = "top"
    /\ ~in_range
    /\ events' = send(tx, events, FinishedEvent(config.max_turns))
    /\ result' = OkResult(final_text, config.max_turns, total_usage)
    /\ pc' = "done"
    /\ UNCHANGED << config, session, store, ctx, turn, cancel, tx, total_usage,
                    final_text, provider, response, block, hist >>

\* Variant: the cancellation persists the state of the interrupted turn.
CancelAtTop_checkpoints ==
    /\ pc = "top"
    /\ in_range
    /\ is_cancelled
    /\ store' = IF config.session_id /\ session = "file"
                THEN SessionState(turn, snapshot(ctx)) ELSE store
    /\ result' = ErrResult("Cancelled", "")
    /\ pc' = "done"
    /\ UNCHANGED << config, session, ctx, turn, cancel, tx, total_usage,
                    final_text, provider, response, block, events, hist >>

\* The token is found fired at the top of a turn.
CancelAtTop ==
    /\ pc = "top"
    /\ in_range
    /\ is_cancelled
    /\ result' = ErrResult("Cancelled", "")
    /\ pc' = "done"
    /\ UNCHANGED << config, session, store, ctx, turn, cancel, tx, total_usage,
                    final_text, provider, response, block, events, hist >>

\* The top of a turn up to the first provider call: the compaction call when the
\* context asks for one, the main call otherwise.
TurnStart ==
    /\ pc = "top"
    /\ in_range
    /\ ~is_cancelled
    /\ events' = send(tx, events, TurnStartEvent(turn))
    /\ provider' = Pending
    /\ IF needs_compaction(ctx) /\ build_compaction_request(ctx).some
       THEN /\ pc' = "compact"
            /\ hist' = [hist EXCEPT !.compact_calls = @ + 1]
       ELSE /\ pc' = "infer"
            /\ hist' = [hist EXCEPT !.infer_calls = @ + 1]
    /\ UNCHANGED << config, session, store, ctx, turn, cancel, tx, total_usage,
                    final_text, response, block, result >>

\* The provider produces the outcome of the call in flight.
ProviderAnswers(out) ==
    /\ pc \in {"compact", "infer"}
    /\ provider.state = "pending"
    /\ out \in (IF pc = "infer" THEN Outcomes(MainResponses)
                 ELSE Outcomes(CompactionResponses))
    /\ provider' = Ready(out)
    /\ hist' = IF out.ok
               THEN [hist EXCEPT !.answered =
                        [input_tokens |-> @.input_tokens + out.resp.usage.input_tokens,
                         output_tokens |-> @.output_tokens + out.resp.usage.output_tokens]]
               ELSE hist
    /\ UNCHANGED << config, session, store, ctx, pc, turn, cancel, tx, total_usage,
                    final_text, response, block, result, events >>

\* Variant: the usage of the compaction response is not counted.
CompactionOk_uncounted ==
    /\ pc = "compact"
    /\ provider.state = "ready"
    /\ provider.out.ok
    /\ LET summary_resp == provider.out.resp
           pre_tokens == estimate_array_tokens(build_request(ctx).messages)
           summary_text == join(text_blocks(summary_resp.content), "\\n")
           compacted == compact(ctx, summary_text)
           post_tokens == estimate_array_tokens(build_request(compacted).messages)
       IN  /\ ctx' = compacted
           /\ events' = send(tx, events, CompactedEvent(pre_tokens, post_tokens))
    /\ pc' = "infer"
    /\ provider' = Pending
    /\ hist' = [hist EXCEPT !.infer_calls = @ + 1]
    /\ UNCHANGED << config, session, store, turn, cancel, tx, total_usage, final_text,
                    response, block, result >>

\* The compaction call returned Ok: compact, then the main call.
CompactionOk ==
    /\ pc = "compact"
    /\ provider.state = "ready"
    /\ provider.out.ok
    /\ LET summary_resp == provider.out.resp
           pre_tokens == estimate_array_tokens(build_request(ctx).messages)
           summary_text == join(text_blocks(summary_resp.content), "\\n")
           compacted == compact(ctx, summary_text)
           post_tokens == estimate_array_tokens(build_request(compacted).messages)
       IN  /\ ctx' = compacted
           /\ total_usage' = accumulate(total_usage, summary_resp.usage)
           /\ events' = send(tx, events, CompactedEvent(pre_tokens, post_tokens))
    /\ pc' = "infer"
    /\ provider' = Pending
    /\ hist' = [hist EXCEPT !.infer_calls = @ + 1]
    /\ UNCHANGED << config, session, store, turn, cancel, tx, final_text, response,
                    block, result >>

\* Variant: the error of the compaction call ends the invocation.
CompactionFails_aborts ==
    /\ pc = "compact"
    /\ provider.state = "ready"
    /\ ~provider.out.ok
    /\ result' = ErrResult("Inference", provider.out.err)
    /\ pc' = "done"
    /\ provider' = NoCall
    /\ UNCHANGED << config, session, store, ctx, turn, cancel, tx, total_usage,
                    final_text, response, block, events, hist >>

\* The compaction call returned Err: a warning, then the main call.
CompactionFails ==
    /\ pc = "compact"
    /\ provider.state = "ready"
    /\ ~provider.out.ok
    /\ pc' = "infer"
    /\ provider' = Pending
    /\ hist' = [hist EXCEPT !.infer_calls = @ + 1]
    /\ UNCHANGED << config, session, store, ctx, turn, cancel, tx, total_usage,
                    final_text, response, block, result, events >>

\* select!: the cancelled() branch is taken while the main call is in flight.
CancelInFlight ==
    /\ pc = "infer"
    /\ is_cancelled
    /\ result' = ErrResult("Cancelled", "")
    /\ pc' = "done"
    /\ provider' = Dropped
    /\ UNCHANGED << config, session, store, ctx, turn, cancel, tx, total_usage,
                    final_text, response, block, events, hist >>

\* Variant: the error of the main call is dropped and the next turn starts.
InferFails_continues ==
    /\ pc = "infer"
    /\ provider.state = "ready"
    /\ ~provider.out.ok
    /\ pc' = "top"
    /\ turn' = turn + 1
    /\ provider' = NoCall
    /\ UNCHANGED << config, session, store, ctx, cancel, tx, total_usage,
                    final_text, response, block, result, events, hist >>

\* The main call returned Err: result? returns AgentError::Inference.
InferFails ==
    /\ pc = "infer"
    /\ provider.state = "ready"
    /\ ~provider.out.ok
    /\ result' = ErrResult("Inference", provider.out.err)
    /\ pc' = "done"
    /\ provider' = NoCall
    /\ UNCHANGED << config, session, store, ctx, turn, cancel, tx, total_usage,
                    final_text, response, block, events, hist >>

\* Variant: a response without a Text block clears the text of the result.
InferOk_clears ==
    /\ pc = "infer"
    /\ provider.state = "ready"
    /\ provider.out.ok
    /\ LET resp == provider.out.resp
           texts == text_blocks(resp.content)
           text == IF texts = <<>> THEN "" ELSE texts[Len(texts)].text
           usage == accumulate(total_usage, resp.usage)
           sent == IF tx THEN events \o [i \in 1..Len(texts) |-> TextEvent(texts[i].text)]
                   ELSE events
           first == next_tool_use(resp.content, 1)
       IN  /\ total_usage' = usage
           /\ ctx' = record_response(ctx, resp)
           /\ final_text' = text
           /\ response' = resp
           /\ provider' = NoCall
           /\ hist' = [hist EXCEPT !.recorded = Append(@, turn),
                                   !.seen = Append(@, resp.content)]
           /\ CASE resp.stop_reason = "EndTurn" ->
                    /\ events' = send(tx, sent, FinishedEvent(turn + 1))
                    /\ result' = OkResult(text, turn + 1, usage)
                    /\ pc' = "done"
                    /\ UNCHANGED << turn, block >>
                [] resp.stop_reason = "ToolUse" /\ first # 0 ->
                    /\ events' = sent
                    /\ pc' = "tools"
                    /\ block' = first
                    /\ UNCHANGED << turn, result >>
                [] OTHER ->
                    /\ events' = sent
                    /\ after_turn
                    /\ UNCHANGED << block, result >>
    /\ UNCHANGED << config, session, store, cancel, tx >>

\* The main call returned Ok: from total_usage.accumulate to the first tool of the
\* turn, the return of EndTurn, or the end of the loop body.
InferOk ==
    /\ pc = "infer"
    /\ provider.state = "ready"
    /\ provider.out.ok
    /\ LET resp == provider.out.resp
           texts == text_blocks(resp.content)
           text == IF texts = <<>> THEN final_text ELSE texts[Len(texts)].text
           usage == accumulate(total_usage, resp.usage)
           sent == IF tx THEN events \o [i \in 1..Len(texts) |-> TextEvent(texts[i].text)]
                   ELSE events
           first == next_tool_use(resp.content, 1)
       IN  /\ total_usage' = usage
           /\ ctx' = record_response(ctx, resp)
           /\ final_text' = text
           /\ response' = resp
           /\ provider' = NoCall
           /\ hist' = [hist EXCEPT !.recorded = Append(@, turn),
                                   !.seen = Append(@, resp.content)]
           /\ CASE resp.stop_reason = "EndTurn" ->
                    /\ events' = send(tx, sent, FinishedEvent(turn + 1))
                    /\ result' = OkResult(text, turn + 1, usage)
                    /\ pc' = "done"
                    /\ UNCHANGED << turn, block >>
                [] resp.stop_reason = "ToolUse" /\ first # 0 ->
                    /\ events' = sent
                    /\ pc' = "tools"
                    /\ block' = first
                    /\ UNCHANGED << turn, result >>
                [] OTHER ->
                    /\ events' = sent
                    /\ after_turn
                    /\ UNCHANGED << block, result >>
    /\ UNCHANGED << config, session, store, cancel, tx >>

\* Variant: the tool is handed to the pipeline without its ToolCall event.
ToolStart_silent ==
    /\ pc = "tools"
    /\ hist' = [hist EXCEPT !.started = Append(@, << turn, response.content[block].id >>)]
    /\ pc' = "tool_wait"
    /\ UNCHANGED << config, session, store, ctx, turn, cancel, tx, total_usage,
                    final_text, provider, response, block, result, events >>

\* One iteration of the ToolUse arm up to the .await of tools.execute.
ToolStart ==
    /\ pc = "tools"
    /\ events' = send(tx, events, ToolCallEvent(response.content[block].name))
    /\ hist' = [hist EXCEPT !.started = Append(@, << turn, response.content[block].id >>)]
    /\ pc' = "tool_wait"
    /\ UNCHANGED << config, session, store, ctx, turn, cancel, tx, total_usage,
                    final_text, provider, response, block, result >>

\* tools.execute returned: the result is sent and recorded, then the next ToolUse
\* block or the end of the loop body.
ToolFinish ==
    /\ pc = "tool_wait"
    /\ LET b == response.content[block]
           res == execute(ToolPipeline(Registry, <<>>, <<>>), b.name, b.input)
           output == res.v
           is_err == ~res.ok
           nxt == next_tool_use(response.content, block + 1)
       IN  /\ events' = send(tx, events, ToolResultEvent(b.name, output, is_err))
           /\ ctx' = record_tool_result(ctx, b.id, b.name, output, is_err)
           /\ IF nxt # 0
              THEN pc' = "tools" /\ block' = nxt /\ turn' = turn
              ELSE after_turn /\ block' = block
    /\ UNCHANGED << config, session, store, cancel, tx, total_usage, final_text,
                    provider, response, result, hist >>

\* session.checkpoint returned Ok: the next turn starts.
CheckpointOk ==
    /\ pc = "checkpoint"
    /\ LET state == SessionState(turn, snapshot(ctx))
       IN  /\ store' = IF session = "file" THEN state ELSE store
           /\ hist' = [hist EXCEPT
                          !.checkpoints = Append(@, state),
                          !.ckpt_ok = @ + 1,
                          !.written = IF session = "file" THEN Append(@, state) ELSE @]
    /\ pc' = "top"
    /\ turn' = turn + 1
    /\ UNCHANGED << config, session, ctx, cancel, tx, total_usage, final_text,
                    provider, response, block, result, events >>

\* Variant: the error of session.checkpoint is dropped and the next turn starts.
CheckpointFails_ignored ==
    /\ pc = "checkpoint"
    /\ session = "file"
    /\ hist' = [hist EXCEPT !.checkpoints = Append(@, SessionState(turn, snapshot(ctx)))]
    /\ pc' = "top"
    /\ turn' = turn + 1
    /\ UNCHANGED << config, session, store, ctx, cancel, tx, total_usage,
                    final_text, provider, response, block, result, events >>

\* session.checkpoint returned Err (FileSessionManager: the directory or the file
\* cannot be written): the ? returns AgentError::Session.
CheckpointFails ==
    /\ pc = "checkpoint"
    /\ session = "file"
    /\ hist' = [hist EXCEPT !.checkpoints = Append(@, SessionState(turn, snapshot(ctx)))]
    /\ result' = ErrResult("Session", "io")
    /\ pc' = "done"
    /\ UNCHANGED << config, session, store, ctx, turn, cancel, tx, total_usage,
                    final_text, provider, response, block, events >>

\* The holder of the token cancels it.
FireCancel ==
    /\ pc \notin {"idle", "done"}
    /\ cancel.armed
    /\ ~cancel.fired
    /\ cancel' = [cancel EXCEPT !.fired = TRUE]
    /\ hist' = IF pc = "infer" /\ provider.state = "pending"
               THEN [hist EXCEPT !.fired_in_flight = turn] ELSE hist
    /\ UNCHANGED << config, session, store, ctx, pc, turn, tx, total_usage,
                    final_text, provider, response, block, result, events >>

Next ==
    \/ \E p \in Prompts : Invoke(p)
    \/ \E p \in Prompts, fired \in BOOLEAN : InvokeWithCancel(p, fired)
    \/ \E p \in Prompts : InvokeStreaming(p)
    \/ ResumeAbsent
    \/ ResumeLoadFails
    \/ Resume
    \/ LoopExit
    \/ CancelAtTop
    \/ TurnStart
    \/ \E out \in Outcomes(MainResponses) \cup Outcomes(CompactionResponses) :
          ProviderAnswers(out)
    \/ CompactionOk
    \/ CompactionFails
    \/ CancelInFlight
    \/ InferFails
    \/ InferOk
    \/ ToolStart
    \/ ToolFinish
    \/ CheckpointOk
    \/ CheckpointFails
    \/ FireCancel

Spec == Init /\ [][Next]_vars

(***************************************************************************)
(* The context manager on its own: a caller applies the operations of the  *)
(* ContextManager trait to one ManagedContextManager in any order.  ctx is *)
(* the manager, hist records the last operation and what it returned; the  *)
(* variables of the control loop are not used.                             *)
(***************************************************************************)
MaxLog == 3

MaxBlocks == 2

MaxCompactions == 2

NoRequest == [model |-> "", max_tokens |-> 0, system |-> None, tools |-> <<>>,
              messages |-> <<>>]

\* The last operation, the request build_request returned, the Result of restore.
Op(name, request, ok) == [op |-> name, request |-> request, ok |-> ok]

\* The managers a caller constructs: the defaults; the tool_search schema among the
\* schemas and thresholds under which old tool results are pruned as soon as more
\* than one is in the log; a manager without any window.
Managers ==
    { Context0,
      with_min_prune_savings(with_keep_recent(with_prune_threshold(
          with_tools(Context0, Append(schemas(Registry), search_tool_schema)), 0), 1), 0),
      with_tools(new("placeholder", 0, 0), schemas(Registry)) }

\* The arguments of record_tool_result.
ToolResultArgs ==
    { << "c1", "echo", "{}", FALSE >>,
      << "c2", "nope", "unknown tool: nope", TRUE >> }

\* A snapshot without the keys of missing.
without(snap, missing) == [snap EXCEPT !.present = @ \ missing]

SnapshotKeys == snapshot(Context0).present

\* The context of an earlier run that was compacted once.
CompactedContext == compact(PriorContext, "summary")

\* The snapshots a caller restores: those of two earlier contexts, complete or
\* with one key missing.
Snapshots ==
    { without(snapshot(c), missing) :
        c \in {PriorContext, CompactedContext},
        missing \in {{}, {"model"}, {"max_tokens"}, {"messages"}, {"compaction_state"}} }

\* The responses a caller records: those with ToolUse blocks.
ContextResponses == {r \in MainResponses : r.stop_reason = "ToolUse"}

ContextInit ==
    /\ ctx \in Managers
    /\ hist = Op("new", NoRequest, TRUE)
    /\ pc = "context"
    /\ config = [max_turns |-> 0, session_id |-> FALSE]
    /\ session = "none"
    /\ store = NoState
    /\ turn = 0
    /\ cancel = NoToken
    /\ tx = FALSE
    /\ total_usage = Usage(0, 0)
    /\ final_text = ""
    /\ provider = NoCall
    /\ response = NoResponse
    /\ block = 0
    /\ result = NoResult
    /\ events = <<>>

loop_vars == << config, session, store, pc, turn, cancel, tx, total_usage, final_text,
               provider, response, block, result, events >>

AddPrompt(prompt) ==
    /\ Len(ctx.messages) < MaxLog
    /\ ctx' = add_prompt(ctx, prompt)
    /\ hist' = Op("add_prompt", NoRequest, TRUE)
    /\ UNCHANGED loop_vars

RecordResponse(resp) ==
    /\ Len(ctx.messages) < MaxLog
    /\ ctx' = record_response(ctx, resp)
    /\ hist' = Op("record_response", NoRequest, TRUE)
    /\ UNCHANGED loop_vars

RecordToolResult(args) ==
    /\ IF ctx.messages # <<>> /\ is_tool_result_msg(Last(ctx.messages))
       THEN Len(Last(ctx.messages).blocks) < MaxBlocks
       ELSE Len(ctx.messages) < MaxLog
    /\ ctx' = record_tool_result(ctx, args[1], args[2], args[3], args[4])
    /\ hist' = Op("record_tool_result", NoRequest, TRUE)
    /\ UNCHANGED loop_vars

Compact(summary) ==
    /\ ctx.compaction_state.compaction_count < MaxCompactions
    /\ ctx' = compact(ctx, summary)
    /\ hist' = Op("compact", NoRequest, TRUE)
    /\ UNCHANGED loop_vars

\* Variant: the pruned copy is written back to the log.
BuildRequest_commits ==
    /\ hist' = Op("build_request", build_request(ctx), TRUE)
    /\ ctx' = [ctx EXCEPT !.messages = build_request(ctx).messages]
    /\ UNCHANGED loop_vars

BuildRequest ==
    /\ hist' = Op("build_request", build_request(ctx), TRUE)
    /\ UNCHANGED ctx
    /\ UNCHANGED loop_vars

Restore(snap) ==
    /\ ctx' = restore(ctx, snap).c
    /\ hist' = Op("restore", NoRequest, restore(ctx, snap).ok)
    /\ UNCHANGED loop_vars

\* ctx2.restore(&ctx.snapshot()) on a manager made by new("placeholder", 0, 0),
\* which then takes the place of ctx; hist keeps the request ctx returned before.
RoundTrip ==
    /\ hist.op # "round_trip"
    /\ ctx' = restore(new("placeholder", 0, 0), snapshot(ctx)).c
    /\ hist' = Op("round_trip", build_request(ctx),
                  restore(new("placeholder", 0, 0), snapshot(ctx)).ok)
    /\ UNCHANGED loop_vars

ContextNext ==
    \/ \E p \in Prompts : AddPrompt(p)
    \/ \E r \in ContextResponses : RecordResponse(r)
    \/ \E a \in ToolResultArgs : RecordToolResult(a)
    \/ Compact("summary")
    \/ BuildRequest
    \/ \E snap \in Snapshots : Restore(snap)
    \/ RoundTrip

ContextSpec == ContextInit /\ [][ContextNext]_vars

(***************************************************************************)
(* Episodic memory: eviction selection and garbage collection.  A score    *)
(* stands for decay_score(access_count, last_accessed_at, confidence, now, *)
(* config) in tenths; the store is the sequence of its entries in the      *)
(* order list_candidates scrolls them.                                     *)
(***************************************************************************)
MaxStored == 3

MaxTotal == 4

MaxBudget == 2

\* DecayConfig::default().eviction_threshold (0.5), in tenths.
DefaultEvictionThreshold == 5

\* usize arithmetic wraps at this modulus where overflow checks are off; every
\* count of the model is far below it.
UsizeModulus == 65536

Scores == {3, 7, 9}

EvictionCandidate(id, score, pinned) == [id |-> id, score |-> score, pinned |-> pinned]

DecayConfig(max_entries) ==
    [eviction_threshold |-> DefaultEvictionThreshold, max_entries |-> max_entries]

\* The place of x in a slice sorted by a stable sort: behind every entry whose
\* score is not greater.
insert(sorted, x) ==
    LET k == Cardinality({i \in 1..Len(sorted) : sorted[i].score <= x.score})
    IN  SubSeq(sorted, 1, k) \o << x >> \o SubSeq(sorted, k + 1, Len(sorted))

\* scored.sort_by(|a, b| a.1.partial_cmp(&b.1)): ascending by score, stable.
RECURSIVE sort_by(_)
sort_by(scored) ==
    IF scored = <<>> THEN <<>>
    ELSE insert(sort_by(SubSeq(scored, 1, Len(scored) - 1)), Last(scored))

ids_of(scored) == [i \in 1..Len(scored) |-> scored[i].id]

\* Iterator::take(n)
take(s, n) == SubSeq(s, 1, Min(n, Len(s)))

\* What a call of select_evictions comes to: the ids it returns, or a panic.
Evictions(to_evict) == [panic |-> FALSE, ids |-> to_evict]

Panic == [panic |-> TRUE, ids |-> <<>>]

\* Variant: the pinned candidates are scored like the others.
select_evictions_all(candidates, total_count, cfg, overflow_checks) ==
    LET scored == sort_by(candidates)
        marked == SelectSeq(scored, LAMBDA c : c.score < cfg.eviction_threshold)
        to_evict == ids_of(marked)
    IN  IF total_count < Len(to_evict) /\ overflow_checks THEN Panic
        ELSE LET remaining == (total_count - Len(to_evict)) % UsizeModulus
                 need_to_cut == remaining - cfg.max_entries
                 rest == SelectSeq(scored, LAMBDA c : c.id \notin {to_evict[i] : i \in 1..Len(to_evict)})
             IN  IF remaining > cfg.max_entries
                 THEN Evictions(to_evict \o ids_of(take(rest, need_to_cut)))
                 ELSE Evictions(to_evict)

\* Variant: only the candidates below the threshold are marked.
select_evictions_phase1(candidates, total_count, cfg, overflow_checks) ==
    LET scored == sort_by(SelectSeq(candidates, LAMBDA c : ~c.pinned))
        marked == SelectSeq(scored, LAMBDA c : c.score < cfg.eviction_threshold)
    IN  IF total_count < Len(marked) /\ overflow_checks THEN Panic
        ELSE Evictions(ids_of(marked))

\* select_evictions(candidates, total_count, now, config).  total_count -
\* to_evict.len() is a usize subtraction: below zero it panics in a build with
\* overflow checks and wraps in a build without.
select_evictions(candidates, total_count, cfg, overflow_checks) ==
    LET scored == sort_by(SelectSeq(candidates, LAMBDA c : ~c.pinned))
        marked == SelectSeq(scored, LAMBDA c : c.score < cfg.eviction_threshold)
        to_evict == ids_of(marked)
    IN  IF total_count < Len(to_evict) /\ overflow_checks THEN Panic
        ELSE LET remaining == (total_count - Len(to_evict)) % UsizeModulus
                 need_to_cut == remaining - cfg.max_entries
                 rest == SelectSeq(scored, LAMBDA c : c.id \notin {to_evict[i] : i \in 1..Len(to_evict)})
             IN  IF remaining > cfg.max_entries
                 THEN Evictions(to_evict \o ids_of(take(rest, need_to_cut)))
                 ELSE Evictions(to_evict)

GcResult(total_before, evicted, remaining) ==
    [kind |-> "ok", total_before |-> total_before, evicted |-> evicted,
     remaining |-> remaining]

\* The stores a gc run may find: entry i has id i.
Stores ==
    UNION { { [i \in 1..n |-> EvictionCandidate(i, f[i][1], f[i][2])] :
                f \in [1..n -> Scores \X BOOLEAN] } : n \in 0..MaxStored }

\* The last call: its name, what it was given, what select_evictions came to, the
\* store before it.
MemOp(op, candidates, total_count, out, store0) ==
    [op |-> op, candidates |-> candidates, total_count |-> total_count, out |-> out,
     store0 |-> store0]

EvictionInit ==
    /\ store \in Stores
    /\ config \in {DecayConfig(m) : m \in 0..MaxBudget}
    /\ hist = MemOp("new", <<>>, 0, Evictions(<<>>), store)
    /\ pc = "memory"
    /\ block = 0
    /\ result = NoResult
    /\ ctx = Context0
    /\ session = "none"
    /\ turn = 0
    /\ cancel = NoToken
    /\ tx = FALSE
    /\ total_usage = Usage(0, 0)
    /\ final_text = ""
    /\ provider = NoCall
    /\ response = NoResponse
    /\ events = <<>>

agent_vars == << ctx, session, turn, cancel, tx, total_usage, final_text, provider,
                response, events >>

\* A call of select_evictions on the candidates of the store with any total count.
SelectEvictions(total_count, overflow_checks) ==
    /\ pc = "memory"
    /\ hist' = MemOp("select_evictions", store, total_count,
                     select_evictions(store, total_count, config, overflow_checks), store)
    /\ pc' = "selected"
    /\ UNCHANGED << store, config, block, result, agent_vars >>

\* gc up to its first delete: list_candidates, count, select_evictions.
Gc(overflow_checks) ==
    /\ pc = "memory"
    /\ hist' = MemOp("gc", store, Len(store),
                     select_evictions(store, Len(store), config, overflow_checks), store)
    /\ block' = 1
    /\ pc' = "deleting"
    /\ UNCHANGED << store, config, result, agent_vars >>

\* list_candidates or count fails: gc returns the error.
GcStoreFails ==
    /\ pc = "memory"
    /\ result' = ErrResult("Store", "scroll failed")
    /\ hist' = [hist EXCEPT !.op = "gc"]
    /\ pc' = "gc_done"
    /\ UNCHANGED << store, config, block, agent_vars >>

\* store.delete(id) of the next id succeeds.
DeleteOk ==
    /\ pc = "deleting"
    /\ block <= Len(hist.out.ids)
    /\ store' = SelectSeq(store, LAMBDA e : e.id # hist.out.ids[block])
    /\ block' = block + 1
    /\ UNCHANGED << config, pc, result, hist, agent_vars >>

\* store.delete(id) of the next id fails: a warning, and the loop goes on.
DeleteFails ==
    /\ pc = "deleting"
    /\ block <= Len(hist.out.ids)
    /\ block' = block + 1
    /\ UNCHANGED << store, config, pc, result, hist, agent_vars >>

\* After the last delete gc returns its GcResult.
GcFinish ==
    /\ pc = "deleting"
    /\ block > Len(hist.out.ids)
    /\ result' = GcResult(hist.total_count, Len(hist.out.ids),
                          hist.total_count - Len(hist.out.ids))
    /\ pc' = "gc_done"
    /\ UNCHANGED << store, config, block, hist, agent_vars >>

EvictionNext ==
    \/ \E n \in 0..MaxTotal, oc \in BOOLEAN : SelectEvictions(n, oc)
    \/ \E oc \in BOOLEAN : Gc(oc)
    \/ GcStoreFails
    \/ DeleteOk
    \/ DeleteFails
    \/ GcFinish

EvictionSpec == EvictionInit /\ [][EvictionNext]_vars

(***************************************************************************)
(* The memory store under concurrent callers: touch (of recall and         *)
(* fetch_full), pin and one gc run, one step per .await.  store maps an id *)
(* to its entry, events holds the position of every touch caller, response *)
(* what the gc run has read, block its place in the delete loop, hist what *)
(* was observed.  A touch makes the entry fresh: its score becomes         *)
(* FreshScore (max(access_count, 1) x 1.0, in tenths, at the least).       *)
(***************************************************************************)
MaxCallers == 2

MaxTouches == 3

MemoryIds == {1, 2}

FreshScore == 10

MemoryEntry(id, score, pinned, access_count) ==
    [id |-> id, present |-> TRUE, score |-> score, pinned |-> pinned,
     access_count |-> access_count]

Caller(state, id, read) == [state |-> state, id |-> id, read |-> read]

IdleCaller == Caller("idle", 0, 0)

GcRun(candidates, total, to_evict) ==
    [candidates |-> candidates, total |-> total, to_evict |-> to_evict]

\* QdrantStore::list_candidates: the entries of the store, by id.
RECURSIVE list_candidates(_, _)
list_candidates(st, i) ==
    IF i \notin DOMAIN st THEN <<>>
    ELSE (IF st[i].present
          THEN << EvictionCandidate(i, st[i].score, st[i].pinned) >> ELSE <<>>)
            \o list_candidates(st, i + 1)

\* QdrantStore::count
count(st) == Cardinality({i \in DOMAIN st : st[i].present})

\* What was observed: the touches that returned Ok per id, whether two touches of
\* an id were in flight together, and every delete of the gc run with the pinned
\* flag the entry had in the store at that time.
MemHist(completed, overlapped, started, deleted) ==
    [completed |-> completed, overlapped |-> overlapped, started |-> started,
     deleted |-> deleted]

MemoryInit ==
    /\ store \in { [i \in MemoryIds |-> MemoryEntry(i, f[i][1], f[i][2], 0)] :
                      f \in [MemoryIds -> {3, 7} \X BOOLEAN] }
    /\ config = DecayConfig(1)
    /\ events = [k \in 1..MaxCallers |-> IdleCaller]
    /\ response = GcRun(<<>>, 0, <<>>)
    /\ block = 0
    /\ pc = "gc_idle"
    /\ result = NoResult
    /\ hist = MemHist([i \in MemoryIds |-> 0], [i \in MemoryIds |-> FALSE], 0, <<>>)
    /\ ctx = Context0
    /\ session = "none"
    /\ turn = 0
    /\ cancel = NoToken
    /\ tx = FALSE
    /\ total_usage = Usage(0, 0)
    /\ final_text = ""
    /\ provider = NoCall

memory_rest == << config, ctx, session, turn, cancel, tx, total_usage, final_text, provider >>

\* touch up to the .await of set_payload: self.get(id) found the entry.
TouchRead(k, id) ==
    /\ events[k].state = "idle"
    /\ hist.started < MaxTouches
    /\ store[id].present
    /\ events' = [events EXCEPT ![k] = Caller("read", id, store[id].access_count)]
    /\ hist' = [hist EXCEPT !.started = @ + 1,
                            !.overlapped[id] =
                                @ \/ \E j \in 1..MaxCallers :
                                        j # k /\ events[j].state = "read" /\ events[j].id = id]
    /\ UNCHANGED << store, response, block, pc, result, memory_rest >>

\* touch when self.get(id) returns None: Err(NotFound).
TouchNotFound(k, id) ==
    /\ events[k].state = "idle"
    /\ hist.started < MaxTouches
    /\ ~store[id].present
    /\ hist' = [hist EXCEPT !.started = @ + 1]
    /\ UNCHANGED << store, events, response, block, pc, result, memory_rest >>

\* Variant: touch writes the count it read back.
TouchWrite_same(k) ==
    /\ events[k].state = "read"
    /\ LET id == events[k].id
       IN  /\ store' = IF store[id].present
                       THEN [store EXCEPT ![id].access_count = events[k].read,
                                          ![id].score = FreshScore]
                       ELSE store
           /\ hist' = [hist EXCEPT !.completed[id] = @ + 1]
    /\ events' = [events EXCEPT ![k] = IdleCaller]
    /\ UNCHANGED << response, block, pc, result, memory_rest >>

\* set_payload of touch: access_count = the count read + 1, last_accessed_at =
\* now; a point that is gone is left alone.
TouchWrite(k) ==
    /\ events[k].state = "read"
    /\ LET id == events[k].id
       IN  /\ store' = IF store[id].present
                       THEN [store EXCEPT ![id].access_count = events[k].read + 1,
                                          ![id].score = FreshScore]
                       ELSE store
           /\ hist' = [hist EXCEPT !.completed[id] = @ + 1]
    /\ events' = [events EXCEPT ![k] = IdleCaller]
    /\ UNCHANGED << response, block, pc, result, memory_rest >>

\* EpisodicMemory::pin: set_pinned(id, true).
Pin(id) ==
    /\ store[id].present
    /\ ~store[id].pinned
    /\ store' = [store EXCEPT ![id].pinned = TRUE]
    /\ UNCHANGED << events, response, block, pc, result, hist, memory_rest >>

\* gc: list_candidates returned.
GcList ==
    /\ pc = "gc_idle"
    /\ response' = GcRun(list_candidates(store, 1), 0, <<>>)
    /\ pc' = "listed"
    /\ UNCHANGED << store, events, block, result, hist, memory_rest >>

\* gc: count returned, select_evictions chose the ids to delete.
GcSelect(overflow_checks) ==
    /\ pc = "listed"
    /\ LET out == select_evictions(response.candidates, count(store), config, overflow_checks)
       IN  /\ response' = GcRun(response.candidates, count(store), out.ids)
           /\ pc' = IF out.panic THEN "gc_panicked" ELSE "deleting"
    /\ block' = 1
    /\ UNCHANGED << store, events, result, hist, memory_rest >>

\* gc: store.delete(id) of the next chosen id.
GcDelete ==
    /\ pc = "deleting"
    /\ block <= Len(response.to_evict)
    /\ LET id == response.to_evict[block]
       IN  /\ store' = [store EXCEPT ![id].present = FALSE]
           /\ hist' = [hist EXCEPT !.deleted =
                           Append(@, [id |-> id, pinned |-> store[id].pinned])]
    /\ block' = block + 1
    /\ UNCHANGED << events, response, pc, result, memory_rest >>

\* gc returns its GcResult.
GcReturns ==
    /\ pc = "deleting"
    /\ block > Len(response.to_evict)
    /\ result' = GcResult(response.total, Len(response.to_evict),
                          response.total - Len(response.to_evict))
    /\ pc' = "gc_done"
    /\ UNCHANGED << store, events, response, block, hist, memory_rest >>

MemoryNext ==
    \/ \E k \in 1..MaxCallers, id \in MemoryIds : TouchRead(k, id)
    \/ \E k \in 1..MaxCallers, id \in MemoryIds : TouchNotFound(k, id)
    \/ \E k \in 1..MaxCallers : TouchWrite(k)
    \/ \E id \in MemoryIds : Pin(id)
    \/ GcList
    \/ \E oc \in BOOLEAN : GcSelect(oc)
    \/ GcDelete
    \/ GcReturns

MemorySpec == MemoryInit /\ [][MemoryNext]_vars

(***************************************************************************)
(* The output pipeline, one step per .await of ToolPipeline::execute and   *)
(* ToolPipeline::run: config is the pipeline, response the call,           *)
(* final_text the `output` of run, events the decorations collected, block *)
(* the next transform or decorator, hist the calls of handlers, transform  *)
(* and decorate made so far, and result what execute returned.             *)
(***************************************************************************)
MaxTransforms == 2

MaxDecorators == 2

ToolSets == {{"echo", "tool_search"}, {"fail_tool"}}

\* with_transform(..) up to MaxTransforms times: the i-th is named t<i>.
TransformLists ==
    UNION { { [i \in 1..n |-> ToolTransform("t" \o ToString(i), f[i][1], f[i][2])] :
                f \in [1..n -> ToolSets \X BOOLEAN] } : n \in 0..MaxTransforms }

\* with_decorator(..) up to MaxDecorators times: the i-th is named d<i>.
DecoratorLists ==
    UNION { { [i \in 1..n |-> ToolDecorator("d" \o ToString(i), f[i][1], f[i][2])] :
                f \in [1..n -> ToolSets \X {"some", "none", "err"}] } :
            n \in 0..MaxDecorators }

PipelineCall(tool_name, input, raw_output) ==
    [tool_name |-> tool_name, input |-> input, raw_output |-> raw_output]

\* A call of transform or decorate: which, the place of its object in the
\* pipeline, the output it was given, and whether it returned Ok.
Called(phase, index, given, ok) == [phase |-> phase, index |-> index, given |-> given, ok |-> ok]

\* The registry of the tests, and the same with a tool named like the meta-tool.
Registries ==
    { Registry, Append(Registry, ToolDef("tool_search", Schema("tool_search", 22), "EchoTool")) }

\* The inputs of a tool_search call: no query, a query that is no string, and
\* queries that are strings.
SearchInputs ==
    { EmptyInput, Input("{\"query\":7}", [some |-> FALSE, v |-> ""]) }
    \cup { Input("{\"query\":\"" \o q \o "\"}", [some |-> TRUE, v |-> q]) :
             q \in {"", " ", "ECHO", " fail  put ", "zzz"} }

PipelineCalls ==
    { PipelineCall(n, EmptyInput, "") : n \in {"echo", "fail_tool", "nope"} }
    \cup { PipelineCall("tool_search", i, "") : i \in SearchInputs }

PipelineInit ==
    /\ config \in { ToolPipeline(reg, ts, ds) :
                      reg \in Registries, ts \in TransformLists, ds \in DecoratorLists }
    /\ response \in PipelineCalls
    /\ final_text = ""
    /\ events = <<>>
    /\ block = 1
    /\ hist = <<>>
    /\ pc = "execute"
    /\ result = NoResult
    /\ ctx = Context0
    /\ session = "none"
    /\ store = NoState
    /\ turn = 0
    /\ cancel = NoToken
    /\ tx = FALSE
    /\ total_usage = Usage(0, 0)
    /\ provider = NoCall

run_vars == << config, ctx, session, store, turn, cancel, tx, total_usage, provider >>

\* execute, name == "tool_search": the search results are returned at once.
ExecuteSearch ==
    /\ pc = "execute"
    /\ intercepts(config, response.tool_name)
    /\ result' = Ok(to_string_pretty(search(config.registry, query_of(response.input))))
    /\ pc' = "searched"
    /\ UNCHANGED << response, final_text, events, block, hist, run_vars >>

\* execute, self.registry.execute(name, input).await?: the handler is called
\* if the registry has the tool; an Err is returned as it is.
ExecuteHandler ==
    /\ pc = "execute"
    /\ ~intercepts(config, response.tool_name)
    /\ LET raw == registry_execute(config.registry, response.tool_name, response.input)
           registered == \E i \in 1..Len(config.registry) :
                            config.registry[i].name = response.tool_name
       IN  /\ hist' = IF registered
                      THEN Append(hist, Called("handler", 0, response.input.text, raw.ok))
                      ELSE hist
           /\ IF raw.ok
              THEN /\ response' = [response EXCEPT !.raw_output = raw.v]
                   /\ final_text' = raw.v
                   /\ pc' = "run"
                   /\ UNCHANGED result
              ELSE /\ result' = raw
                   /\ pc' = "failed"
                   /\ UNCHANGED << response, final_text >>
    /\ UNCHANGED << events, block, run_vars >>

\* Phase 1: the next transform.
TransformStep ==
    /\ pc = "run"
    /\ block <= Len(config.transforms)
    /\ LET t == config.transforms[block]
       IN  /\ final_text' = transform_step(t, response.tool_name, response.input, final_text)
           /\ hist' = IF applies_to(t, response.tool_name, response.input)
                      THEN Append(hist, Called("transform", block, final_text,
                                    transform(t, response.tool_name, response.input, final_text).ok))
                      ELSE hist
    /\ block' = block + 1
    /\ UNCHANGED << pc, events, result, response, run_vars >>

\* Phase 2: the next decorator.
DecorateStep ==
    /\ pc = "run"
    /\ block > Len(config.transforms)
    /\ block <= Len(config.transforms) + Len(config.decorators)
    /\ LET i == block - Len(config.transforms)
           d == config.decorators[i]
       IN  /\ events' = decorate_step(d, response.tool_name, response.input, final_text, events)
           /\ hist' = IF applies_to(d, response.tool_name, response.input)
                      THEN Append(hist, Called("decorate", i, final_text,
                                    decorate_one(d, response.tool_name, response.input, final_text).ok))
                      ELSE hist
    /\ block' = block + 1
    /\ UNCHANGED << pc, final_text, result, response, run_vars >>

\* The decorations are appended, run returns and execute returns Ok of it.
RunReturns ==
    /\ pc = "run"
    /\ block > Len(config.transforms) + Len(config.decorators)
    /\ result' = Ok(format(final_text, events))
    /\ pc' = "returned"
    /\ UNCHANGED << final_text, events, block, hist, response, run_vars >>

PipelineNext ==
    \/ ExecuteSearch
    \/ ExecuteHandler
    \/ TransformStep
    \/ DecorateStep
    \/ RunReturns

PipelineSpec == PipelineInit /\ [][PipelineNext]_vars

(***************************************************************************)
(* The redaction transform.  A text is the sequence of its characters; the *)
(* replacement "[REDACTED]" is one element, since none of its characters   *)
(* can start or extend a match.  The bundled patterns are cut down to one  *)
(* of each shape, with prefixes and min_len short enough for texts of      *)
(* MaxOutputLen characters to hold a credential: a prefix whose characters *)
(* are in its charset ("sk-", AlphaNumDash), one with a character outside  *)
(* its charset ("Bearer ", Base64), and the prefixless hex rule.           *)
(***************************************************************************)
MaxOutputLen == 7

Alphabet == {"k", "-", " ", "a", "1"}

Digits == {"1"}

Alphabetic == {"k", "a"}

\* CharSet::matches, over the alphabet.
CharSet(name) ==
    CASE name = "AlphaNumDash" -> {"k", "a", "1", "-"}
      [] name = "Base64" -> {"k", "a", "1"}
      [] name = "Hex" -> {"a", "1"}

SecretPattern(name, prefix, min_len, charset) ==
    [name |-> name, prefix |-> prefix, min_len |-> min_len, charset |-> charset]

\* RedactionTransform::new(): in the order of the source.
Patterns ==
    << SecretPattern("OpenAI API key", << "k", "-" >>, 2, "AlphaNumDash"),
       SecretPattern("Bearer token", << "k", " " >>, 2, "Base64"),
       SecretPattern("hex secret", << >>, 3, "Hex") >>

Redacted == "[REDACTED]"

\* The texts a tool may return.
Texts == UNION { [1..n -> Alphabet] : n \in 0..MaxOutputLen }

\* str::find: the first place of the prefix, 0 for None.
find(text, prefix) ==
    LET places == {i \in 1..Len(text) : at(text, i, prefix)}
    IN  IF places = {} THEN 0 ELSE CHOOSE i \in places : \A j \in places : i <= j

from(text, i) == SubSeq(text, i, Len(text))

RECURSIVE redact_prefixed(_, _)
redact_prefixed(input, pattern) ==
    LET pos == find(input, pattern.prefix)
        after_prefix == from(input, pos + Len(pattern.prefix))
        secret_len == take_while(after_prefix, CharSet(pattern.charset))
    IN  IF pos = 0 THEN input
        ELSE IF secret_len >= pattern.min_len
        THEN SubSeq(input, 1, pos - 1) \o << Redacted >>
                \o redact_prefixed(from(after_prefix, secret_len + 1), pattern)
        ELSE SubSeq(input, 1, pos - 1) \o pattern.prefix
                \o redact_prefixed(after_prefix, pattern)

any(chars, class) == \E i \in 1..Len(chars) : chars[i] \in class

RECURSIVE redact_long_runs(_, _)
redact_long_runs(input, pattern) ==
    IF input = <<>> THEN <<>>
    ELSE IF input[1] \in CharSet(pattern.charset)
    THEN LET run_len == take_while(input, CharSet(pattern.charset))
             chars == SubSeq(input, 1, run_len)
         IN  (IF run_len >= pattern.min_len /\ any(chars, Digits) /\ any(chars, Alphabetic)
              THEN << Redacted >> ELSE chars)
                \o redact_long_runs(from(input, run_len + 1), pattern)
    ELSE << input[1] >> \o redact_long_runs(Tail(input), pattern)

\* RedactionTransform::redact: every pattern in turn on the output of the last.
RECURSIVE redact_with(_, _)
redact_with(patterns, output) ==
    IF patterns = <<>> THEN output
    ELSE redact_with(Tail(patterns),
            IF Head(patterns).prefix = <<>> THEN redact_long_runs(output, Head(patterns))
            ELSE redact_prefixed(output, Head(patterns)))

redact(input) == redact_with(Patterns, input)

RedactionInit ==
    /\ response \in Texts
    /\ pc = "transform"
    /\ result = <<>>
    /\ config = Patterns
    /\ hist = <<>>
    /\ ctx = Context0
    /\ session = "none"
    /\ store = NoState
    /\ turn = 0
    /\ cancel = NoToken
    /\ tx = FALSE
    /\ total_usage = Usage(0, 0)
    /\ final_text = ""
    /\ provider = NoCall
    /\ block = 0
    /\ events = <<>>

\* RedactionTransform::transform: Ok(redacted).
RedactionTransform ==
    /\ pc = "transform"
    /\ result' = redact(response)
    /\ pc' = "transformed"
    /\ UNCHANGED << response, config, hist, ctx, session, store, turn, cancel, tx,
                    total_usage, final_text, provider, block, events >>

RedactionNext == RedactionTransform

RedactionSpec == RedactionInit /\ [][RedactionNext]_vars

(***************************************************************************)
(* A tool call through a pipeline with the redaction transform and one     *)
(* decorator, as run_loop makes it: response is what the handler returned, *)
(* hist the outputs the decorator was shown, result what execute returned, *)
(* events and ctx what run_loop sent and recorded.                         *)
(***************************************************************************)
MaxHandlerLen == 4

\* What a handler may return: Ok or Err of a text.
HandlerResults ==
    { [ok |-> o, v |-> t] :
        o \in BOOLEAN, t \in UNION { [1..n -> Alphabet] : n \in 0..MaxHandlerLen } }

ToolResultInit ==
    /\ response \in HandlerResults
    /\ config = Patterns
    /\ pc = "execute"
    /\ result = NoResult
    /\ hist = <<>>
    /\ events = <<>>
    /\ ctx = Context0
    /\ session = "none"
    /\ store = NoState
    /\ turn = 0
    /\ cancel = NoToken
    /\ tx = TRUE
    /\ total_usage = Usage(0, 0)
    /\ final_text = ""
    /\ provider = NoCall
    /\ block = 0

tool_result_rest == << response, config, session, store, turn, cancel, tx, total_usage,
                       final_text, provider, block >>

\* execute: the handler returned Ok, run redacts the output, shows it to the
\* decorator (which adds nothing) and execute returns Ok of it.
ExecuteRedacts ==
    /\ pc = "execute"
    /\ response.ok
    /\ hist' = << redact(response.v) >>
    /\ result' = Ok(redact(response.v))
    /\ pc' = "executed"
    /\ UNCHANGED << events, ctx, tool_result_rest >>

\* execute: the handler returned Err, which the ? returns before run is called.
ExecuteReturnsErr ==
    /\ pc = "execute"
    /\ ~response.ok
    /\ result' = response
    /\ pc' = "executed"
    /\ UNCHANGED << hist, events, ctx, tool_result_rest >>

\* run_loop: the ToolResult event is sent and the result recorded, Ok or Err.
RecordResult ==
    /\ pc = "executed"
    /\ events' = send(tx, events, ToolResultEvent("echo", result.v, ~result.ok))
    /\ ctx' = record_tool_result(ctx, "t1", "echo", result.v, ~result.ok)
    /\ pc' = "recorded"
    /\ UNCHANGED << hist, result, tool_result_rest >>

ToolResultNext ==
    \/ ExecuteRedacts
    \/ ExecuteReturnsErr
    \/ RecordResult

ToolResultSpec == ToolResultInit /\ [][ToolResultNext]_vars

(***************************************************************************)
(* invoke_streaming over its bounded channel.  The provider and the tools  *)
(* answer, the context never needs compaction: what is left of the run is  *)
(* the events it sends, one tx.send(e).await after the other.  response is *)
(* the events still to send, events the channel, config its capacity and   *)
(* what the consumer does, tx whether the receiver is alive, hist the      *)
(* events received.                                                        *)
(***************************************************************************)
MaxCapacity == 2

MaxScript == 2

\* The answers of the provider over a run: one per turn.
Scripts == UNION { [1..n -> MainResponses] : n \in 1..MaxScript }

\* The events the ToolUse arm sends for the blocks of a response.
RECURSIVE tool_events(_)
tool_events(content) ==
    IF content = <<>> THEN <<>>
    ELSE IF Head(content).type = "tool_use"
         THEN LET b == Head(content)
                  res == execute(ToolPipeline(Registry, <<>>, <<>>), b.name, b.input)
              IN  << ToolCallEvent(b.name), ToolResultEvent(b.name, res.v, ~res.ok) >>
                      \o tool_events(Tail(content))
         ELSE tool_events(Tail(content))

\* The events run_loop sends from a turn on, with max_turns the length of the
\* script: TurnStart, a Text per Text block, then Finished and the return on
\* EndTurn, the tool events on ToolUse, nothing more on MaxTokens.
RECURSIVE events_from(_, _)
events_from(script, t) ==
    IF t >= Len(script) THEN <<>>
    ELSE LET resp == script[t + 1]
             texts == text_blocks(resp.content)
             head == << TurnStartEvent(t) >> \o [i \in 1..Len(texts) |-> TextEvent(texts[i].text)]
         IN  CASE resp.stop_reason = "EndTurn" -> head \o << FinishedEvent(t + 1) >>
               [] resp.stop_reason = "ToolUse" ->
                     head \o tool_events(resp.content) \o events_from(script, t + 1)
               [] OTHER -> head \o events_from(script, t + 1)

\* The consumer reads as events come, reads only once invoke_streaming has
\* returned, or drops the receiver.
Consumers == {"reads", "reads_after_return", "drops"}

StreamingInit ==
    /\ \E script \in Scripts : response = events_from(script, 0)
    /\ config \in { [capacity |-> n, consumer |-> c] : n \in 1..MaxCapacity, c \in Consumers }
    /\ events = <<>>
    /\ tx = TRUE
    /\ hist = <<>>
    /\ pc = "running"
    /\ result = NoResult
    /\ ctx = Context0
    /\ session = "none"
    /\ store = NoState
    /\ turn = 0
    /\ cancel = NoToken
    /\ total_usage = Usage(0, 0)
    /\ final_text = ""
    /\ provider = NoCall
    /\ block = 0

streaming_rest == << config, result, ctx, session, store, turn, cancel, total_usage,
                     final_text, provider, block >>

\* tx.send(e).await with room in the channel: the event is queued.
ChannelSend ==
    /\ pc = "running"
    /\ response # <<>>
    /\ tx
    /\ Len(events) < config.capacity
    /\ events' = Append(events, Head(response))
    /\ response' = Tail(response)
    /\ UNCHANGED << pc, tx, hist, streaming_rest >>

\* tx.send(e).await with the receiver dropped: Err, which `let _ =` ignores.
ChannelSendClosed ==
    /\ pc = "running"
    /\ response # <<>>
    /\ ~tx
    /\ response' = Tail(response)
    /\ UNCHANGED << pc, tx, events, hist, streaming_rest >>

\* Every event is sent: run_loop returns.
StreamingReturns ==
    /\ pc = "running"
    /\ response = <<>>
    /\ pc' = "done"
    /\ UNCHANGED << response, tx, events, hist, streaming_rest >>

\* rx.recv() or rx.try_recv() of the consumer takes the oldest event.
ChannelRecv ==
    /\ tx
    /\ events # <<>>
    /\ \/ config.consumer = "reads"
       \/ config.consumer = "reads_after_return" /\ pc = "done"
    /\ hist' = Append(hist, Head(events))
    /\ events' = Tail(events)
    /\ UNCHANGED << pc, tx, response, streaming_rest >>

\* The consumer drops the receiver: the channel closes and a sender waiting
\* for room is woken.
ReceiverDropped ==
    /\ tx
    /\ config.consumer = "drops"
    /\ tx' = FALSE
    /\ events' = <<>>
    /\ UNCHANGED << pc, response, hist, streaming_rest >>

StreamingNext ==
    \/ ChannelSend
    \/ ChannelSendClosed
    \/ StreamingReturns
    \/ ChannelRecv
    \/ ReceiverDropped

\* The runtime polls the task of the agent and the task of the consumer; a
\* consumer that drops the receiver does so at some time.
StreamingSpec ==
    /\ StreamingInit
    /\ [][StreamingNext]_vars
    /\ WF_vars(ChannelSend \/ ChannelSendClosed \/ StreamingReturns)
    /\ WF_vars(ChannelRecv)
    /\ WF_vars(ReceiverDropped)

(***************************************************************************)
(* The source-tag transform.  A text is a sequence of characters in which  *)
(* the word tool-output is one element, as are the other fixed words of    *)
(* the tag and the two entities of the replacement: the closing tag is the *)
(* four elements < / tool-output >, which like the literal has no proper   *)
(* prefix that is also a suffix.  response is the call, config the tools   *)
(* skipped, result what the pipeline holds after the transform.            *)
(***************************************************************************)
MaxTagLen == 4

TagAlphabet == {"<", "/", "tool-output", ">"}

ClosingTag == << "<", "/", "tool-output", ">" >>

TagTexts == UNION { [1..n -> TagAlphabet] : n \in 0..MaxTagLen }

\* The string values an input field may hold.
FieldValues == { << "/src/main.rs" >>, << "x", "\"", ">" >> \o ClosingTag }

\* A tool input as the source tag reads it: input.get(key).and_then(as_str) for
\* two of the keys it tries, path before url.
TagInput(path, url) == [path |-> path, url |-> url]

TagCall(tool_name, input, output) == [tool_name |-> tool_name, input |-> input, output |-> output]

\* str::replace: the matches of pat from left to right, without overlap.
RECURSIVE replace(_, _, _)
replace(text, pat, to) ==
    IF text = <<>> THEN <<>>
    ELSE IF at(text, 1, pat) THEN to \o replace(SubSeq(text, Len(pat) + 1, Len(text)), pat, to)
    ELSE << text[1] >> \o replace(Tail(text), pat, to)

\* SourceTagTransform::extract_source
extract_source(tool_name, input) ==
    IF input.path.some THEN input.path.v
    ELSE IF input.url.some THEN input.url.v
    ELSE << "tool://" >> \o tool_name

\* SourceTagTransform::transform
source_tag(tool_name, input, output) ==
    LET source == extract_source(tool_name, input)
        safe_output == replace(output, ClosingTag, << "&lt;", "/", "tool-output", "&gt;" >>)
    IN  << "<", "tool-output", " tool=\"" >> \o tool_name \o << "\" source=\"" >>
            \o source \o << "\"", ">", "\\n" >> \o safe_output \o << "\\n" >> \o ClosingTag

SourceTagInit ==
    /\ response \in
          { TagCall(n, TagInput(p, u), o) :
              n \in { << "read_file" >>, << "internal_tool" >>, ClosingTag },
              p \in { [some |-> FALSE, v |-> <<>>] } \cup { [some |-> TRUE, v |-> f] : f \in FieldValues },
              u \in { [some |-> FALSE, v |-> <<>>] } \cup { [some |-> TRUE, v |-> f] : f \in FieldValues },
              o \in TagTexts }
    /\ config \in { << >>, << << "internal_tool" >> >> }
    /\ pc = "transform"
    /\ result = <<>>
    /\ hist = <<>>
    /\ ctx = Context0
    /\ session = "none"
    /\ store = NoState
    /\ turn = 0
    /\ cancel = NoToken
    /\ tx = FALSE
    /\ total_usage = Usage(0, 0)
    /\ final_text = ""
    /\ provider = NoCall
    /\ block = 0
    /\ events = <<>>

\* applies_to: the tool is not among skip_tools.
source_tag_applies_to(skip_tools, tool_name) ==
    \A i \in 1..Len(skip_tools) : skip_tools[i] # tool_name

\* The pipeline calls transform for a tool the tagger applies to.
SourceTagTransform ==
    /\ pc = "transform"
    /\ source_tag_applies_to(config, response.tool_name)
    /\ result' = source_tag(response.tool_name, response.input, response.output)
    /\ pc' = "tagged"
    /\ UNCHANGED << response, config, hist, ctx, session, store, turn, cancel, tx,
                    total_usage, final_text, provider, block, events >>

\* The pipeline passes the output of a skipped tool on as it is.
SourceTagSkipped ==
    /\ pc = "transform"
    /\ ~source_tag_applies_to(config, response.tool_name)
    /\ result' = response.output
    /\ pc' = "skipped"
    /\ UNCHANGED << response, config, hist, ctx, session, store, turn, cancel, tx,
                    total_usage, final_text, provider, block, events >>

SourceTagNext ==
    \/ SourceTagTransform
    \/ SourceTagSkipped

SourceTagSpec == SourceTagInit /\ [][SourceTagNext]_vars

(***************************************************************************)
(* Properties of the agent control loop.                                   *)
(***************************************************************************)

Range(s) == {s[i] : i \in 1..Len(s)}

\* The invocation has returned.
Returned == pc = "done"

\* C1: every entry point that returns a result reports at most max_turns turns, and
\* the loop never issues more than max_turns main inference calls, whatever the
\* provider answers.
C1_TurnBudget ==
    /\ hist.infer_calls <= config.max_turns
    /\ result.kind = "ok" => result.turns <= config.max_turns

\* The budget is used up: max_turns main calls, and the result reports max_turns.
C1_Witness ==
    /\ result.kind = "ok"
    /\ config.max_turns >= 2
    /\ result.turns = config.max_turns
    /\ hist.infer_calls = config.max_turns

\* C2: when the token is already fired at the call of invoke_with_cancel, the call
\* returns Cancelled, provider.infer is never called (for compaction or for a main
\* turn) and no tool is executed, in every configuration.
C2_FiredBeforeCall ==
    (hist.entry = "invoke_with_cancel" /\ hist.token0 /\ Returned) =>
        /\ result.kind = "err"
        /\ result.error = "Cancelled"
        /\ hist.infer_calls = 0
        /\ hist.compact_calls = 0
        /\ hist.started = <<>>

\* C3: when the token fires while a main call is in flight and unanswered, the
\* invocation returns Cancelled: the response of that call is not recorded, not
\* added to the usage, and no tool of that turn is executed.  (A call that ends in
\* an inference error is left aside: the claim is about a response.)
C3_FiredInFlight ==
    hist.fired_in_flight >= 0 =>
        /\ hist.fired_in_flight \notin Range(hist.recorded)
        /\ \A k \in 1..Len(hist.started) : hist.started[k][1] # hist.fired_in_flight
        /\ (Returned /\ result.error # "Inference") =>
                (result.kind = "err" /\ result.error = "Cancelled")

\* C4: with a session id, every turn whose response was recorded (the EndTurn turn
\* included) is followed, before the next turn starts or the invocation returns its
\* result, by a checkpoint of that turn's index and of the context with that turn's
\* response and tool results.
C4_CheckpointEveryTurn ==
    (/\ config.session_id
     /\ session = "file"
     /\ hist.recorded # <<>>
     /\ pc = "top" \/ (Returned /\ result.kind = "ok")) =>
        /\ hist.checkpoints # <<>>
        /\ Last(hist.checkpoints).turn = Last(hist.recorded)
        /\ Last(hist.checkpoints).context_snapshot = snapshot(ctx)

\* The ToolUse blocks of a response, in order.
tool_uses(content) == SelectSeq(content, LAMBDA b : b.type = "tool_use")

unknown_tool(name) == \A i \in 1..Len(Registry) : Registry[i].name # name

handler_fails(name) ==
    \E i \in 1..Len(Registry) : Registry[i].name = name /\ Registry[i].handler = "ErrorTool"

\* The tools of the last response have all been dispatched.
Dispatched ==
    /\ pc \in {"checkpoint", "top"}
    /\ response.stop_reason = "ToolUse"
    /\ tool_uses(response.content) # <<>>

\* Every failed tool of the dispatched response is in the log as an error result
\* under its call id, at the position of its ToolUse block.
C5_FailuresRecorded ==
    Dispatched =>
        LET uses == tool_uses(response.content)
            last == Last(ctx.messages)
        IN  /\ last.role = "user"
            /\ last.is_array
            /\ Len(last.blocks) = Len(uses)
            /\ \A i \in 1..Len(uses) :
                  /\ unknown_tool(uses[i].name) =>
                        last.blocks[i] = ToolResult(uses[i].id, uses[i].name,
                                            "unknown tool: " \o uses[i].name, TRUE)
                  /\ handler_fails(uses[i].name) =>
                        last.blocks[i] = ToolResult(uses[i].id, uses[i].name,
                                            "tool failed", TRUE)

\* The step in which a tool returns goes on with the next ToolUse block of the
\* response if there is one and with the end of the turn otherwise; it returns nothing.
C5_NoAbort ==
    (pc = "tool_wait" /\ pc' # "tool_wait") =>
        /\ result' = NoResult
        /\ IF next_tool_use(response.content, block + 1) # 0
           THEN pc' = "tools" /\ block' = next_tool_use(response.content, block + 1)
           ELSE pc' \in {"checkpoint", "top"}

\* C5: a tool that fails (its handler returns an error, or its name is unknown to
\* the registry) does not abort the loop: the error text is recorded as a tool
\* result with is_error = true under the call's id, the remaining ToolUse blocks of
\* the response are dispatched, and the loop goes on.
C5_ToolFailureRecorded == []C5_FailuresRecorded /\ [][C5_NoAbort]_vars

\* A response with a failing handler and an unknown tool has been dispatched, and
\* the loop is at the top of the next turn.
C5_Witness ==
    /\ Dispatched
    /\ pc = "top"
    /\ \E i, j \in 1..Len(response.content) :
          /\ i < j
          /\ handler_fails(response.content[i].name)
          /\ unknown_tool(response.content[j].name)
          /\ Last(ctx.messages).blocks[j].is_error

\* No step is taken once the entry point has returned.
NothingAfterReturn == ~Returned

\* The step in which the main call returns an error.
C6_Step ==
    (pc = "infer" /\ provider.state = "ready" /\ ~provider.out.ok
        /\ provider'.state = "none") =>
        /\ result' = ErrResult("Inference", provider.out.err)
        /\ pc' = "done"
        /\ ctx' = ctx
        /\ store' = store
        /\ events' = events
        /\ hist' = hist

\* C6: when a main-turn inference call fails, the invocation returns
\* AgentError::Inference with that error and stops: nothing is recorded in the
\* context for the turn, no tool is executed, no checkpoint is written and the
\* provider is not called again.
C6_InferenceErrorAborts == [][NothingAfterReturn /\ C6_Step]_vars

\* An inference error on a later turn: every earlier response was recorded, the
\* failed call left nothing.
C6_Witness ==
    /\ Returned
    /\ result.error = "Inference"
    /\ hist.infer_calls >= 2
    /\ Len(hist.recorded) = hist.infer_calls - 1

\* The step in which the compaction call returns an error.
C7_Step ==
    (pc = "compact" /\ provider.state = "ready" /\ ~provider.out.ok
        /\ provider' # provider) =>
        /\ ctx' = ctx
        /\ events' = events
        /\ total_usage' = total_usage
        /\ result' = NoResult
        /\ turn' = turn
        /\ pc' = "infer"
        /\ provider' = Pending
        /\ hist'.infer_calls = hist.infer_calls + 1

\* C7: a failure of the compaction call is swallowed: the log and the compaction
\* state are unchanged, no Compacted event is sent, nothing is added to the usage,
\* and the same turn issues its main inference call.
C7_CompactionFailureSwallowed == [][C7_Step]_vars

\* The main call of a turn is in flight after a failed compaction: the context
\* still asks for compaction and was never compacted.
C7_Witness ==
    /\ pc = "infer"
    /\ hist.compact_calls >= 1
    /\ needs_compaction(ctx)
    /\ ~ctx.compaction_state.has_compacted

\* The step in which session.checkpoint returns an error.
C8_Step ==
    (/\ Len(hist'.checkpoints) > Len(hist.checkpoints)
     /\ hist'.ckpt_ok = hist.ckpt_ok) =>
        /\ result' = ErrResult("Session", "io")
        /\ pc' = "done"
        /\ turn' = turn
        /\ events' = events
        /\ hist'.infer_calls = hist.infer_calls
        /\ hist'.compact_calls = hist.compact_calls

\* No Finished event was sent.
NotFinished == \A i \in 1..Len(events) : events[i].type # "Finished"

\* C8: when session.checkpoint fails at the end of a turn, the invocation returns a
\* Session error there: no later turn starts, the provider is not called again and
\* no Finished event is emitted.
C8_CheckpointFailureAborts ==
    /\ []((Returned /\ result.error = "Session") => NotFinished)
    /\ [][NothingAfterReturn /\ C8_Step]_vars

\* A streaming invocation whose second checkpoint failed.
C8_Witness ==
    /\ Returned
    /\ result.error = "Session"
    /\ tx
    /\ Len(hist.checkpoints) = 2
    /\ hist.ckpt_ok = 1

\* The invocation ran with a session id and a session manager that persists.
Persisting == config.session_id /\ session = "file"

\* C9: when an invocation with a session id ends in Cancelled, the cancellation
\* writes no checkpoint for the interrupted turn: the persisted state is the one
\* written at the end of the last completed turn of the invocation; if no turn of
\* the invocation completed it is what the session held when the invocation began,
\* absent for a session that had persisted nothing.
C9_CancelWritesNothing ==
    (Returned /\ result.error = "Cancelled" /\ Persisting) =>
        IF hist.recorded = <<>>
        THEN /\ store = hist.store0
             /\ ~hist.store0.some => ~store.some
        ELSE /\ hist.written # <<>>
             /\ store = Last(hist.written)
             /\ store.turn = Last(hist.recorded)

\* Cancelled in the third turn, over a state an earlier run had persisted.
C9_Witness ==
    /\ Returned
    /\ result.error = "Cancelled"
    /\ Persisting
    /\ hist.store0.some
    /\ Len(hist.recorded) = 2
    /\ store.turn = 1

\* The call ids of the tools handed to the pipeline in turn t, in order.
started_in(t) ==
    LET mine == SelectSeq(hist.started, LAMBDA e : e[1] = t)
    IN  [i \in 1..Len(mine) |-> mine[i][2]]

\* The call ids of the tool results of the last log entry, in order.
recorded_ids ==
    LET last == Last(ctx.messages)
    IN  IF is_tool_result_msg(last)
        THEN [i \in 1..Len(last.blocks) |-> last.blocks[i].id]
        ELSE <<>>

\* C10: in a ToolUse turn the ToolUse blocks are executed one at a time in the
\* order of the response, each result being recorded before the next tool starts;
\* the recorded tool results are in the order of the ToolUse blocks and carry their ids.
C10_SequentialDispatch ==
    (response.stop_reason = "ToolUse" /\ pc \in {"tools", "tool_wait", "checkpoint"}) =>
        LET uses == tool_uses(response.content)
            ids == [i \in 1..Len(uses) |-> uses[i].id]
            s == started_in(turn)
            r == recorded_ids
        IN  /\ Len(s) <= Len(ids)
            /\ s = SubSeq(ids, 1, Len(s))
            /\ r = SubSeq(ids, 1, Len(r))
            /\ pc = "tools" => Len(s) = Len(r) /\ Len(r) < Len(ids)
            /\ pc = "tool_wait" => Len(s) = Len(r) + 1
            /\ pc = "checkpoint" => Len(s) = Len(ids) /\ Len(r) = Len(ids)

\* The second of three tools is running: the first result is recorded, the third
\* tool has not started.
C10_Witness ==
    /\ pc = "tool_wait"
    /\ Len(tool_uses(response.content)) = 3
    /\ Len(started_in(turn)) = 2
    /\ Len(recorded_ids) = 1

\* The positions of the TurnStart events among the first n events.
turn_starts(n) == {j \in 1..n : events[j].type = "TurnStart"}

\* A turn is under way.
InTurn == pc \in {"compact", "infer", "tools", "tool_wait", "checkpoint"}

\* C11: the events of one invocation are in causal order: no Compacted, Text,
\* ToolCall or ToolResult event precedes the first TurnStart, and the TurnStart of
\* the turn under way has been sent before any other event of that turn; the turn numbers of successive TurnStart events are 0, 1, 2, ...; a
\* Compacted event directly follows the TurnStart of its turn; every ToolCall is
\* directly followed by the ToolResult of the same tool, and a ToolResult only
\* follows its ToolCall; a Finished event is the last event, there is exactly one on
\* a successful return and it carries the turns of the result.
C11_EventOrder ==
    /\ events # <<>> => events[1].type \in {"TurnStart", "Finished"}
    /\ (tx /\ InTurn) =>
          /\ turn_starts(Len(events)) # {}
          /\ \E j \in turn_starts(Len(events)) :
                /\ events[j].turn = turn
                /\ \A k \in turn_starts(Len(events)) : k <= j
    /\ \A i \in 1..Len(events) :
          LET e == events[i]
          IN  /\ e.type = "TurnStart" => e.turn = Cardinality(turn_starts(i - 1))
              /\ e.type = "Compacted" => i > 1 /\ events[i - 1].type = "TurnStart"
              /\ e.type = "ToolCall" =>
                    IF i < Len(events)
                    THEN events[i + 1].type = "ToolResult" /\ events[i + 1].name = e.name
                    ELSE pc = "tool_wait"
              /\ e.type = "ToolResult" =>
                    i > 1 /\ events[i - 1].type = "ToolCall" /\ events[i - 1].name = e.name
              /\ e.type = "Finished" =>
                    /\ i = Len(events)
                    /\ Returned /\ result.kind = "ok" /\ e.turn = result.turns
    /\ (tx /\ Returned /\ result.kind = "ok") =>
          events # <<>> /\ Last(events).type = "Finished"

\* A streaming invocation returned after a compaction, a failing tool and three turns.
C11_Witness ==
    /\ tx /\ Returned /\ result.kind = "ok"
    /\ Cardinality(turn_starts(Len(events))) = 3
    /\ \E i, j \in 1..Len(events) :
          /\ events[i].type = "Compacted"
          /\ events[j].type = "ToolResult" /\ events[j].is_error

\* C12: the usage of a result is the component-wise sum of the usage of every
\* response the provider returned during the invocation, main-turn and compaction
\* responses alike, and of nothing else.
C12_UsageSum ==
    (Returned /\ result.kind = "ok") => result.usage = hist.answered

\* A result after three main-turn responses and a successful compaction.
C12_Witness ==
    /\ Returned /\ result.kind = "ok"
    /\ hist.infer_calls = 3
    /\ ctx.compaction_state.has_compacted
    /\ result.usage.input_tokens >= 8

\* C13: in every reachable state of the conversation log the roles strictly
\* alternate: no two adjacent entries are both user entries or both assistant
\* entries (consecutive tool results are one batched user entry).
C13_RolesAlternate ==
    \A i \in 1..(Len(ctx.messages) - 1) :
        ctx.messages[i].role # ctx.messages[i + 1].role

(***************************************************************************)
(* Properties of the context manager.                                      *)
(***************************************************************************)
\* A user entry made of tool-result blocks.
tool_result_entry(m) ==
    /\ m.role = "user"
    /\ m.is_array
    /\ m.blocks # <<>>
    /\ \A j \in 1..Len(m.blocks) : m.blocks[j].type = "tool_result"

\* s is t without its last element.
IsFront(s, t) == Len(t) = Len(s) + 1 /\ SubSeq(t, 1, Len(s)) = s

\* No two adjacent entries are both tool-result entries.
C14_Batched ==
    \A i \in 1..(Len(ctx.messages) - 1) :
        ~(tool_result_entry(ctx.messages[i]) /\ tool_result_entry(ctx.messages[i + 1]))

\* A step of record_tool_result or add_prompt.
C14_Step ==
    LET old == ctx.messages
        new_ == ctx'.messages
        n == Len(old)
    IN  /\ hist'.op = "record_tool_result" =>
              /\ new_ # <<>>
              /\ tool_result_entry(Last(new_))
              /\ \E a \in ToolResultArgs :
                    Last(Last(new_).blocks) = ToolResult(a[1], a[2], a[3], a[4])
              /\ IF n > 0 /\ tool_result_entry(old[n])
                 THEN /\ Len(new_) = n
                      /\ SubSeq(new_, 1, n - 1) = SubSeq(old, 1, n - 1)
                      /\ IsFront(old[n].blocks, new_[n].blocks)
                 ELSE /\ IsFront(old, new_)
                      /\ Len(Last(new_).blocks) = 1
        /\ hist'.op = "add_prompt" =>
              /\ IsFront(old, new_)
              /\ \E p \in Prompts : Last(new_) = TextMessage("user", p)

\* C14: tool results recorded one after the other are the blocks of one single user
\* entry, in the order in which they were recorded; record_tool_result adds its
\* block at the end of a tail entry of tool results and otherwise makes a new
\* entry, never touching a user text entry; add_prompt always makes a new entry.
C14_ToolResultsBatched == []C14_Batched /\ [][C14_Step]_vars

\* Two results were recorded in a row after a prompt: one entry with both blocks.
C14_Witness ==
    /\ pc = "context"
    /\ hist.op = "record_tool_result"
    /\ Len(ctx.messages) = 2
    /\ ~ctx.messages[1].is_array
    /\ Len(ctx.messages[2].blocks) = 2
    /\ ctx.messages[2].blocks[1].id = "c2"
    /\ ctx.messages[2].blocks[2].id = "c1"

\* A step of add_prompt, record_response or record_tool_result.
C15_Step ==
    LET old == ctx.messages
        new_ == ctx'.messages
        n == Len(old)
    IN  hist'.op \in {"add_prompt", "record_response", "record_tool_result"} =>
            \/ IsFront(old, new_)
            \/ /\ n > 0
               /\ Len(new_) = n
               /\ SubSeq(new_, 1, n - 1) = SubSeq(old, 1, n - 1)
               /\ new_[n].role = old[n].role
               /\ new_[n].is_array = old[n].is_array
               /\ new_[n].text = old[n].text
               /\ IsFront(old[n].blocks, new_[n].blocks)

\* C15: without compact and restore the log only grows: add_prompt,
\* record_response and record_tool_result leave every entry and every block of the
\* log unchanged and in place, and add one entry at the end or one block at the
\* end of the last entry.
C15_LogGrows == [][C15_Step]_vars

\* A response was recorded directly after another one.
C15_Witness ==
    /\ pc = "context"
    /\ hist.op = "record_response"
    /\ Len(ctx.messages) >= 2
    /\ ctx.messages[Len(ctx.messages) - 1].role = "assistant"

\* C16: build_request leaves the manager unchanged (log, active tools, compaction
\* state and all the rest), also when the request it returns has stubs or lacks
\* schemas; the request a call returned is the one the next call returns as long
\* as no operation changes the manager.
C16_BuildRequestPure ==
    /\ [](hist.op = "build_request" => hist.request = build_request(ctx))
    /\ [][hist'.op = "build_request" => ctx' = ctx]_vars

\* A request that has a stub and lacks a schema was returned.
C16_Witness ==
    /\ pc = "context"
    /\ hist.op = "build_request"
    /\ hist.request.messages # ctx.messages
    /\ Len(hist.request.tools) < Len(ctx.tool_schemas)

\* How many tool-result blocks of the user entries of log come after block j of
\* entry i, in log order.
results_after(log, i, j) ==
    Cardinality({p \in (i..Len(log)) \X (1..MaxBlocks + 1) :
                    /\ p[1] > i \/ p[2] > j
                    /\ log[p[1]].role = "user"
                    /\ p[2] <= Len(log[p[1]].blocks)
                    /\ log[p[1]].blocks[p[2]].type = "tool_result"})

\* C17: in a request returned by build_request every entry is the entry of the log
\* at the same position, up to tool-result blocks replaced by stubs: a stub is at
\* the position of the block it replaces and keeps its tool_use_id, and none of
\* the last keep_recent_tool_results tool-result blocks of the log is replaced.
C17_KeepRecent ==
    hist.op = "build_request" =>
        LET req == hist.request.messages
            log == ctx.messages
        IN  /\ Len(req) = Len(log)
            /\ \A i \in 1..Len(log) :
                  /\ req[i].role = log[i].role
                  /\ req[i].is_array = log[i].is_array
                  /\ req[i].text = log[i].text
                  /\ Len(req[i].blocks) = Len(log[i].blocks)
                  /\ \A j \in 1..Len(log[i].blocks) :
                        \/ req[i].blocks[j] = log[i].blocks[j]
                        \/ /\ log[i].role = "user"
                           /\ log[i].blocks[j].type = "tool_result"
                           /\ req[i].blocks[j].type = "tool_result"
                           /\ req[i].blocks[j].id = log[i].blocks[j].id
                           /\ results_after(log, i, j) >= ctx.keep_recent_tool_results

\* A request with a stub: the log has three tool results in two entries, one is kept.
C17_Witness ==
    /\ pc = "context"
    /\ hist.op = "build_request"
    /\ ctx.keep_recent_tool_results = 1
    /\ Len(ctx.messages) = 3
    /\ tool_result_entry(ctx.messages[1])
    /\ tool_result_entry(ctx.messages[3])
    /\ Len(ctx.messages[3].blocks) = 2
    /\ hist.request.messages[1] # ctx.messages[1]
    /\ hist.request.messages[3].blocks[1] # ctx.messages[3].blocks[1]
    /\ hist.request.messages[3].blocks[2] = ctx.messages[3].blocks[2]

\* C18: restoring snapshot(ctx) into a freshly constructed manager succeeds and
\* gives a manager whose next build_request() equals ctx.build_request() in model,
\* max_tokens, system, tools and messages, whatever the thresholds of ctx.
C18_RoundTrip ==
    hist.op = "round_trip" => hist.ok /\ build_request(ctx) = hist.request

\* The keys restore cannot do without.
RequiredKeys == {"model", "max_tokens", "messages"}

\* C19: restore returns a Context error exactly when the snapshot lacks model,
\* max_tokens or messages; when it succeeds, every key of the snapshot is taken
\* over and every other missing key takes its default (context window 200000, no
\* system prompt, no tool schemas, no active tools, compaction state not compacted
\* with boundary 0 and count 0), whatever the manager held before.
C19_RestoreDefaults ==
    \A c0 \in {PriorContext, CompactedContext}, missing \in SUBSET SnapshotKeys :
        LET has(k) == k \notin missing
            r == restore(ctx, without(snapshot(c0), missing))
        IN  /\ r.ok <=> missing \cap RequiredKeys = {}
            /\ r.ok =>
                  /\ r.c.model = c0.model
                  /\ r.c.max_tokens = c0.max_tokens
                  /\ r.c.messages = c0.messages
                  /\ r.c.context_window =
                        IF has("context_window") THEN c0.context_window ELSE 200000
                  /\ r.c.system = IF has("system") THEN c0.system ELSE None
                  /\ r.c.tool_schemas =
                        IF has("tool_schemas") THEN c0.tool_schemas ELSE <<>>
                  /\ r.c.active_tools =
                        IF has("active_tools") THEN c0.active_tools ELSE {}
                  /\ r.c.compaction_state =
                        IF has("compaction_state") THEN c0.compaction_state
                        ELSE CompactionState(FALSE, 0, 0)

\* A step of compact("summary").
C20_Step ==
    LET old == ctx.messages
        new_ == ctx'.messages
        cs == ctx.compaction_state
        cs_ == ctx'.compaction_state
        kept == Min(cs.last_compaction_boundary, Len(old))
    IN  hist'.op = "compact" =>
            /\ cs_.has_compacted
            /\ cs_.compaction_count = cs.compaction_count + 1
            /\ cs_.last_compaction_boundary = Len(new_)
            /\ Last(new_).role = "user"
            /\ ~Last(new_).is_array
            /\ IF ~cs.has_compacted
               THEN /\ Len(new_) = 1
                    /\ new_[1].text = "[Conversation summary --- compaction #"
                                        \o ToString(cs_.compaction_count) \o "]\\n\\nsummary"
               ELSE /\ Len(new_) = kept + 1
                    /\ SubSeq(new_, 1, kept) = SubSeq(old, 1, kept)
                    /\ new_[kept + 1].text = "[Partial summary --- compaction #"
                                        \o ToString(cs_.compaction_count) \o "]\\n\\nsummary"

\* C20: the first compaction replaces the whole log by one synthetic user summary
\* entry and sets the boundary to 1; every later one keeps the entries before the
\* boundary, replaces the entries from the boundary on by one summary entry and
\* sets the boundary to the new length of the log; every compaction sets
\* has_compacted and adds one to compaction_count.
C20_Compact == [][C20_Step]_vars

\* A second compaction has replaced the entries recorded after the first summary.
C20_Witness ==
    /\ pc = "context"
    /\ hist.op = "compact"
    /\ ctx.compaction_state.compaction_count = 2
    /\ Len(ctx.messages) = 2
    /\ ctx.messages[1].text = "[Conversation summary --- compaction #1]\\n\\nsummary"
    /\ ctx.messages[2].text = "[Partial summary --- compaction #2]\\n\\nsummary"

\* The schemas whose name is in the active-tool set, in their registered order.
active_schemas(c) == SelectSeq(c.tool_schemas, LAMBDA sch : sch.name \in c.active_tools)

\* The schema tokens are at most tool_defer_threshold of the effective window.
schemas_fit(c) ==
    token_budget(c).tool_schema_tokens * 100
        <= c.tool_defer_threshold * effective_window(token_budget(c))

has_tool_search(tools) == \E i \in 1..Len(tools) : tools[i].name = "tool_search"

\* C22: whenever tool deferral leaves a schema out of a request, the tool_search
\* schema, when it is among the schemas of the manager, is in the tools of that
\* request, whether or not the model has called tool_search.
C22_ToolSearchVisible ==
    (/\ hist.op = "build_request"
     /\ has_tool_search(ctx.tool_schemas)
     /\ Len(hist.request.tools) < Len(ctx.tool_schemas)) =>
        has_tool_search(hist.request.tools)

\* C37: a restore that fails with a Context error leaves the manager as it was:
\* model, max_tokens, context window, system prompt, log, tool schemas, active
\* tools and compaction state are unchanged.
C37_FailedRestoreChangesNothing ==
    [][(hist'.op = "restore" /\ ~hist'.ok) => ctx' = ctx]_vars

\* C38: after any sequence of add_prompt, record_response, record_tool_result,
\* compact and restore of an accepted snapshot, has_compacted implies
\* 1 <= last_compaction_boundary <= number of log entries, so that
\* build_compaction_request and compact never index past the end of the log.
C38_BoundaryInLog ==
    ctx.compaction_state.has_compacted =>
        /\ 1 <= ctx.compaction_state.last_compaction_boundary
        /\ ctx.compaction_state.last_compaction_boundary <= Len(ctx.messages)

(***************************************************************************)
(* Properties of resume and of the result.                                 *)
(***************************************************************************)
Resumed == hist.entry = "resume"

\* The turns a resumed loop has left: max_turns less the turns up to the checkpoint.
turns_left == Max(0, config.max_turns - (hist.store0.turn + 1))

\* resume returned the error of session.load: no loop was started.
load_failed ==
    /\ Returned /\ result = ErrResult("Session", "io")
    /\ turn = 0 /\ hist.infer_calls = 0 /\ ctx = Context0

\* C23: resume with a persisted state restores the context from the snapshot of
\* that state and runs the loop from turn state.turn + 1, so the provider is called
\* at most max_turns - (state.turn + 1) times; resume without a persisted state
\* returns None, calls the provider not once and leaves the context as it was. (A
\* load that fails is reported as a Session error, again without any call.)
C23_Resume ==
    Resumed =>
        IF hist.store0.some /\ ~load_failed
        THEN /\ turn >= hist.store0.turn + 1
             /\ \A i \in 1..Len(hist.recorded) : hist.recorded[i] >= hist.store0.turn + 1
             /\ hist.infer_calls <= turns_left
             /\ (pc = "top" /\ turn = hist.store0.turn + 1) =>
                    ctx = restore(Context0, hist.store0.context_snapshot).c
        ELSE /\ Returned
             /\ result \in {AbsentResult, ErrResult("Session", "io")}
             /\ session = "none" => result = AbsentResult
             /\ hist.infer_calls = 0 /\ hist.compact_calls = 0
             /\ provider = NoCall
             /\ ctx = Context0

C23_Witness ==
    /\ Resumed /\ hist.store0.some /\ hist.store0.turn = 0
    /\ Returned /\ result.kind = "ok" /\ result.turns = 2
    /\ hist.infer_calls = 1
    /\ hist.recorded = << 1 >>

C23_WitnessAbsent ==
    Resumed /\ ~hist.store0.some /\ Returned /\ result = AbsentResult

Invoked == hist.entry \in {"invoke", "invoke_with_cancel", "invoke_streaming"}

\* C24: an invocation in which max_turns turns completed, none of them ended by an
\* EndTurn response, returns Ok with turns = max_turns and the last text seen, and
\* with a streaming channel its last event is Finished{turns: max_turns}.
C24_MaxTurnsIsSuccess ==
    (Invoked /\ Returned /\ turn = config.max_turns) =>
        /\ Len(hist.recorded) = config.max_turns
        /\ result.kind = "ok"
        /\ result.turns = config.max_turns
        /\ result.text = final_text
        /\ result.usage = total_usage
        /\ tx => /\ Last(events) = FinishedEvent(config.max_turns)
                 /\ \A i \in 1..(Len(events) - 1) : events[i].type # "Finished"

C24_Witness ==
    /\ hist.entry = "invoke_streaming" /\ Returned
    /\ config.max_turns = 2 /\ turn = 2
    /\ hist.recorded = << 0, 1 >>
    /\ result.kind = "ok" /\ result.turns = 2 /\ result.text = "cut"
    /\ Last(events) = FinishedEvent(2)

\* The last Text block of the last of the responses that has one, "" if none has.
RECURSIVE last_text(_)
last_text(seen) ==
    IF seen = <<>> THEN ""
    ELSE LET texts == text_blocks(Last(seen))
         IN  IF texts # <<>> THEN Last(texts).text
             ELSE last_text(SubSeq(seen, 1, Len(seen) - 1))

\* C25: the text of a result is the last Text block of the last response of the
\* invocation that has a Text block, and "" if no response has one: a later
\* response without a Text block does not clear it.
C25_FinalText ==
    (Returned /\ result.kind = "ok") => result.text = last_text(hist.seen)

C25_Witness ==
    /\ Returned /\ result.kind = "ok"
    /\ Len(hist.seen) = 3
    /\ Len(text_blocks(hist.seen[1])) = 2
    /\ text_blocks(hist.seen[2]) = <<>>
    /\ text_blocks(hist.seen[3]) = <<>>
    /\ result.text = "cut"

\* Every tool_use block of the entries has a tool_result block with its id in
\* the user entry directly after its assistant entry.
paired(messages) ==
    \A i \in 1..Len(messages) : \A j \in 1..Len(messages[i].blocks) :
        messages[i].blocks[j].type = "tool_use" =>
            /\ i < Len(messages)
            /\ messages[i + 1].role = "user"
            /\ \E k \in 1..Len(messages[i + 1].blocks) :
                  /\ messages[i + 1].blocks[k].type = "tool_result"
                  /\ messages[i + 1].blocks[k].id = messages[i].blocks[j].id

\* C36: every main-turn request the loop builds pairs each tool_use block of the
\* log with a tool_result of the same id in the user entry directly after it,
\* also after a MaxTokens or EndTurn response that holds ToolUse blocks.
C36_ToolUsePaired ==
    pc = "infer" => paired(build_request(ctx).messages)

(***************************************************************************)
(* Properties of the episodic memory.                                      *)
(***************************************************************************)
Selected == hist.op \in {"select_evictions", "gc"} /\ ~hist.out.panic

unpinned(candidates) == SelectSeq(candidates, LAMBDA c : ~c.pinned)

below(candidates) == SelectSeq(unpinned(candidates), LAMBDA c : c.score < config.eviction_threshold)

\* C26: select_evictions returns the id of no pinned candidate, whatever the
\* scores, the total count and max_entries are, and a gc run over a store that
\* nobody else modifies leaves every pinned entry in the store.
C26_PinnedNeverEvicted ==
    /\ Selected =>
          \A i \in 1..Len(hist.candidates) :
              hist.candidates[i].pinned => hist.candidates[i].id \notin Range(hist.out.ids)
    /\ hist.op = "gc" =>
          \A i \in 1..Len(hist.store0) :
              hist.store0[i].pinned => hist.store0[i] \in Range(store)

C26_Witness ==
    /\ hist.op = "gc" /\ pc = "gc_done" /\ result.kind = "ok"
    /\ \E i \in 1..Len(hist.store0) :
          hist.store0[i].pinned /\ hist.store0[i].score < config.eviction_threshold
    /\ Len(hist.out.ids) > Len(below(hist.store0))
    /\ Len(store) < Len(hist.store0)
    /\ Len(store) > config.max_entries

C33_BelowThresholdOnly ==
    (hist.op = "select_evictions" /\ hist.total_count <= config.max_entries) =>
        /\ ~hist.out.panic
        /\ hist.out.ids = ids_of(sort_by(below(hist.candidates)))
        /\ \A i \in 1..Len(hist.candidates) :
              (~hist.candidates[i].pinned
                    /\ hist.candidates[i].score >= config.eviction_threshold) =>
                 hist.candidates[i].id \notin Range(hist.out.ids)

(***************************************************************************)
(* Properties of the output pipeline.                                      *)
(***************************************************************************)
calls(phase) == SelectSeq(hist, LAMBDA c : c.phase = phase)

applicable(objects) ==
    {i \in 1..Len(objects) : response.tool_name \in objects[i].tools}

\* The output after the calls of transform made so far: what the last one that
\* returned Ok produced, the raw output if none did.
RECURSIVE output_after(_)
output_after(cs) ==
    IF cs = <<>> THEN response.raw_output
    ELSE IF Last(cs).ok
         THEN config.transforms[Last(cs).index].name \o "(" \o Last(cs).given \o ")"
         ELSE output_after(SubSeq(cs, 1, Len(cs) - 1))

\* C28: the applicable transforms are called in registration order, each with the
\* output of the last transform that returned Ok (the raw output if none); one
\* that fails changes nothing, the transforms and decorators behind it are still
\* called with the previous output, and run returns an output in every case.
C28_Transforms ==
    LET ts == calls("transform")
        ds == calls("decorate")
    IN  /\ \A k \in 1..Len(ts) :
              /\ ts[k].index \in applicable(config.transforms)
              /\ k > 1 => ts[k - 1].index < ts[k].index
              /\ ts[k].given = output_after(SubSeq(ts, 1, k - 1))
              /\ ts[k].ok = ~config.transforms[ts[k].index].fails
        /\ {ts[k].index : k \in 1..Len(ts)}
              = {i \in applicable(config.transforms) : i < block}
        /\ final_text = output_after(ts)
        /\ \A k \in 1..Len(ds) : ds[k].given = output_after(ts)
        /\ pc = "run" => ENABLED PipelineNext
        /\ pc = "returned" =>
              /\ {ds[k].index : k \in 1..Len(ds)} = applicable(config.decorators)
              /\ result = Ok(run(config, response.tool_name, response.input, response.raw_output))

C28_Witness ==
    /\ pc = "returned"
    /\ Len(config.transforms) = 2
    /\ config.transforms[1].fails /\ ~config.transforms[2].fails
    /\ calls("transform") = << Called("transform", 1, "{}", FALSE),
                               Called("transform", 2, "{}", TRUE) >>
    /\ calls("decorate") = << Called("decorate", 1, "t2({})", TRUE) >>
    /\ result = Ok("t2({})\\n\\n---\\n[d1]\\nseen: t2({})")

\* The decorations the calls of decorate made so far produced, in call order.
produced ==
    LET ds == SelectSeq(calls("decorate"),
                        LAMBDA c : c.ok /\ config.decorators[c.index].returns = "some")
    IN  [k \in 1..Len(ds) |->
            Decoration(config.decorators[ds[k].index].name, "seen: " \o ds[k].given)]

\* C29: the decorators are called after every transform, in registration order,
\* each with the same post-transform output; one that fails or returns nothing
\* adds no decoration and does not stop the others; run returns the
\* post-transform output unchanged when no decoration was produced, and otherwise
\* that output, "\n\n---\n", and the decorations in registration order joined by
\* "\n\n", each written "[label]\ncontent".
C29_Decorators ==
    LET ts == calls("transform")
        ds == calls("decorate")
        post == output_after(ts)
    IN  /\ \A i, j \in 1..Len(hist) :
              (hist[i].phase = "decorate" /\ hist[j].phase = "transform") => j < i
        /\ ds # <<>> => {ts[k].index : k \in 1..Len(ts)} = applicable(config.transforms)
        /\ \A k \in 1..Len(ds) :
              /\ ds[k].index \in applicable(config.decorators)
              /\ k > 1 => ds[k - 1].index < ds[k].index
              /\ ds[k].given = post
        /\ {ds[k].index : k \in 1..Len(ds)}
              = {i \in applicable(config.decorators) : i < block - Len(config.transforms)}
        /\ events = produced
        /\ pc = "returned" =>
              result = Ok(IF produced = <<>> THEN post
                          ELSE post \o "\\n\\n---\\n"
                               \o join_strings([k \in 1..Len(produced) |->
                                     "[" \o produced[k].label \o "]\\n" \o produced[k].content],
                                     "\\n\\n"))

C29_Witness ==
    /\ pc = "returned"
    /\ Len(config.transforms) = 1 /\ ~config.transforms[1].fails
    /\ Len(config.decorators) = 2
    /\ config.decorators[1].returns = "err" /\ config.decorators[2].returns = "some"
    /\ calls("decorate") = << Called("decorate", 1, "t1({})", FALSE),
                              Called("decorate", 2, "t1({})", TRUE) >>
    /\ result = Ok("t1({})\\n\\n---\\n[d2]\\nseen: t1({})")

C29_WitnessPlain ==
    /\ pc = "returned"
    /\ Len(calls("decorate")) = 2 /\ produced = <<>>
    /\ result = Ok("t1({})")

\* C32: a call of execute with the name tool_search calls no handler of the
\* registry, even when a tool of that name is registered, and runs no transform
\* and no decorator: it returns Ok with the JSON list of the results of
\* search(query), a query that is missing or not a string being the empty query,
\* which matches no tool.
C32_ToolSearch ==
    (response.tool_name = "tool_search" /\ pc # "execute") =>
        /\ pc = "searched"
        /\ hist = <<>>
        /\ events = <<>>
        /\ result.ok
        /\ result.v = to_string_pretty(search(config.registry, query_of(response.input)))
        /\ result = execute(config, "tool_search", response.input)
        /\ ~response.input.query.some =>
              /\ search(config.registry, query_of(response.input)) = search(config.registry, "")
              /\ result.v = "[]"

\* A search that finds the echo tool by a term in another case, in a pipeline
\* whose transform and decorator accept tool_search and whose registry has a
\* tool named tool_search.
C32_Witness ==
    /\ pc = "searched"
    /\ response.input.query = [some |-> TRUE, v |-> "ECHO"]
    /\ Len(config.registry) = 3
    /\ \E i \in 1..Len(config.transforms) : "tool_search" \in config.transforms[i].tools
    /\ \E i \in 1..Len(config.decorators) : "tool_search" \in config.decorators[i].tools
    /\ result = Ok("[\\n  {\\n    \"description\": \"Echoes input\",\\n    \"name\": \"echo\"\\n  }\\n]")

\* A query that is not a string, answered like the empty query.
C32_WitnessNoString ==
    /\ pc = "searched"
    /\ response.input.text = "{\"query\":7}"
    /\ result = Ok("[]")

occurrences(text, s) == Cardinality({i \in 1..(Len(text) + 1) : at(text, i, s)})

(***************************************************************************)
(* Properties of the source-tag transform.                                 *)
(***************************************************************************)
\* C34: for every tool name, input and output, the result of the source-tag
\* transform contains the literal </tool-output> exactly once, as its last
\* characters: no text of the call closes the tag early.
C34_ClosedOnce ==
    pc = "tagged" =>
        /\ occurrences(result, ClosingTag) = 1
        /\ at(result, Len(result) - Len(ClosingTag) + 1, ClosingTag)

(***************************************************************************)
(* Properties of the redaction transform.                                  *)
(***************************************************************************)

\* The credentials of a text: a prefix of a pattern followed by at least min_len
\* characters of its charset, or for the hex rule a run of at least min_len hex
\* characters with a digit and a letter.
credentials(text) ==
    UNION { { [prefix |-> Patterns[p].prefix, tail |-> SubSeq(text, i, j)] :
                i \in 1..Len(text), j \in 1..Len(text) } : p \in 1..Len(Patterns) }

is_credential(text, c) ==
    \E p \in 1..Len(Patterns) :
        /\ c.prefix = Patterns[p].prefix
        /\ Len(c.tail) >= Patterns[p].min_len
        /\ \A i \in 1..Len(c.tail) : c.tail[i] \in CharSet(Patterns[p].charset)
        /\ contains(text, c.prefix \o c.tail)
        /\ c.prefix = <<>> => any(c.tail, Digits) /\ any(c.tail, Alphabetic)

\* C30: the output of the redaction transform contains neither the prefix+tail nor
\* the tail of any credential of the tool output: the prefix+tail does not stand in
\* it, and the tail stands in it fewer times than in the tool output (a copy of the
\* tail outside the credential is not counted against the transform).
C30_RedactionSound ==
    pc = "transformed" =>
        \A c \in credentials(response) :
            is_credential(response, c) =>
                /\ ~contains(result, c.prefix \o c.tail)
                /\ occurrences(result, c.tail) < occurrences(response, c.tail)

\* C35: with the redaction transform installed, no credential of a text that a
\* handler returned, as Ok or as Err, stands in what the decorator is shown, in
\* the ToolResult event or in the tool_result block of the context.
C35_NoCredentialSeen ==
    pc = "recorded" =>
        \A c \in credentials(response.v) :
            is_credential(response.v, c) =>
                /\ \A i \in 1..Len(hist) : ~contains(hist[i], c.prefix \o c.tail)
                /\ \A i \in 1..Len(events) : ~contains(events[i].content, c.prefix \o c.tail)
                /\ \A i \in 1..Len(ctx.messages) : \A j \in 1..Len(ctx.messages[i].blocks) :
                      ~contains(ctx.messages[i].blocks[j].content, c.prefix \o c.tail)

(***************************************************************************)
(* Properties of the memory store under concurrent callers.                *)
(***************************************************************************)
Quiet == \A k \in 1..MaxCallers : events[k].state = "idle"

\* C31 as stated: when the touches of an entry have all completed, its
\* access_count is higher by exactly their number.
C31_Original ==
    Quiet => \A id \in MemoryIds :
                store[id].present => store[id].access_count = hist.completed[id]

\* C31: when the touches of an entry have all completed, its access_count is
\* higher by their number if no two of them were in flight together; if some
\* were, it is higher by at least 1 and at most their number.
C31_Touch ==
    Quiet => \A id \in MemoryIds :
                store[id].present =>
                    /\ store[id].access_count <= hist.completed[id]
                    /\ hist.completed[id] >= 1 => store[id].access_count >= 1
                    /\ ~hist.overlapped[id] => store[id].access_count = hist.completed[id]

C31_Witness ==
    /\ Quiet
    /\ \E id \in MemoryIds :
          /\ store[id].present
          /\ hist.overlapped[id]
          /\ hist.completed[id] = 3
          /\ store[id].access_count = 2

\* C39: a gc run deletes no entry whose pinned flag is set in the store at the
\* time of the delete, also not one that was pinned after the run listed its
\* candidates.
C39_PinnedDuringGc ==
    \A i \in 1..Len(hist.deleted) : ~hist.deleted[i].pinned

(***************************************************************************)
(* Properties of invoke_streaming.                                         *)
(***************************************************************************)
\* C40: invoke_streaming eventually returns whenever the provider and the tools
\* answer, whatever the consumer of the channel does: it reads as events come,
\* reads only after the return, or has dropped the receiver.
C40_StreamingReturns == <>(pc = "done")

====
